---- MODULE Spec2Model ----
(***************************************************************************)
(* Tool Instance Registry of DuckCoding (src-tauri/src/services/tool/      *)
(* registry.rs): the registry's operations over the instance store, the    *)
(* detector probes and the clock, as a state machine of concurrent         *)
(* callers.  Every store access of the code happens under the store's      *)
(* mutex, so one locked section is one atomic step; every awaited probe    *)
(* is a step of its own.                                                   *)
(***************************************************************************)
EXTENDS Integers, Sequences, FiniteSets, TLC

(* ------------------------------------------------------------------ *)
(* Bounds of the model                                                *)
(* ------------------------------------------------------------------ *)
\* the clock (chrono::Utc::now().timestamp()) runs over 0..MaxClock
MaxClock == 1
\* store-changing operations a behaviour may start
MaxOps == 2
\* changes of the probed environment (install / uninstall of a tool)
MaxEnvSteps == 2

(* ------------------------------------------------------------------ *)
(* Option<T>, as Rust has it                                          *)
(* ------------------------------------------------------------------ *)
None == << >>
Some(x) == << x >>
IsSome(o) == o # None
Unwrap(o) == o[1]

(* ------------------------------------------------------------------ *)
(* Static data                                                        *)
(* ------------------------------------------------------------------ *)
\* the known tool ids
KnownTools == {"claude-code", "codex", "gemini-cli"}
\* a tool id no detector and no Tool descriptor exists for
UnknownTool == "x"
ToolIds == KnownTools \cup {UnknownTool}

\* the display name add_tool_instance gives a tool id
DisplayName(tool_id) ==
    CASE tool_id = "claude-code" -> "Claude Code"
      [] tool_id = "codex"       -> "CodeX"
      [] tool_id = "gemini-cli"  -> "Gemini CLI"
      [] OTHER                   -> tool_id

\* Tool::by_id: the static descriptor of a known tool, None otherwise
Tool_by_id(tool_id) ==
    IF tool_id \in KnownTools
    THEN Some([id |-> tool_id, name |-> DisplayName(tool_id)])
    ELSE None

\* DetectorRegistry::get / all_detectors: one detector per known tool
DetectorRegistry_get(tool_id) ==
    IF tool_id \in KnownTools THEN Some(tool_id) ELSE None
all_detectors == KnownTools

\* executable paths, version strings (sequences of characters), installers
Paths == {"/p1", "/p2"}
Versions == {<<"1">>, <<"2">>}
\* the version a fresh install reports (an upgrade changes it)
FirstVersion == <<"1">>
NpmPath == "/bin/npm"
Distros == {"Ubuntu"}
SSHConfigs == {"hostA"}
Callers == {1, 2}

(* ------------------------------------------------------------------ *)
(* State                                                              *)
(* ------------------------------------------------------------------ *)
VARIABLES
    store,   \* the instance store: a set of ToolInstance rows, unique by instance_id
    env,     \* what a detector's probes find for each known tool
    now,     \* the clock, in seconds
    pc,      \* pc[c]: where caller c stands in its operation
    loc,     \* loc[c]: the locals of caller c's operation
    ret,     \* ret[c]: the result of caller c's last finished operation
    nops,    \* store-changing operations started so far
    nenv,    \* environment changes so far
    cache,   \* ToolStatusCache: the cached ToolStatus of each cached tool id
    dashboard \* DashboardManager: dashboard.json and the manager's cached store

vars == <<store, env, now, pc, loc, ret, nops, nenv, cache, dashboard>>

\* ToolStatusCache::new: an empty map; DashboardManager::new on a machine
\* without dashboard.json: no file, nothing cached
NoCache == << >>
NoDashboard == [file |-> None, cache |-> None]

NoLoc == [op |-> "none"]
NoRet == [op |-> "none"]

\* what the probes find for a tool that is not installed
NotInstalled ==
    [installed |-> FALSE, version |-> None, path |-> None, method |-> None]

\* the install methods a detector tells apart, and those the environment takes here
InstallMethods == {"Npm", "Brew", "Official", "Other"}
EnvMethods == {"Npm", "Official", "Other"}

\* the result of the path-lookup command (which / where): success flag, output lines
WhichResults ==
    { [success |-> FALSE, stdout |-> << >>],
      [success |-> TRUE,  stdout |-> << >>],
      [success |-> TRUE,  stdout |-> << "" >>],
      [success |-> TRUE,  stdout |-> << NpmPath >>] }

(* ------------------------------------------------------------------ *)
(* The instance store (ToolInstanceDB)                                 *)
(* ------------------------------------------------------------------ *)
get_all_instances(s) == s
get_local_instances(s) == { r \in s : r.tool_type = "Local" }
\* an existence check that finds nothing
instance_exists_Never(s, id) == FALSE
instance_exists(s, id) == \E r \in s : r.instance_id = id
\* insert-or-replace by id
upsert_instance(s, inst) ==
    { r \in s : r.instance_id # inst.instance_id } \cup {inst}
\* insert; fails on a duplicate id and then leaves the store as it is
add_instance_fails(s, inst) == instance_exists(s, inst.instance_id)
\* an insert that replaces the row of a duplicate id
add_instance_Upsert(s, inst) == upsert_instance(s, inst)
add_instance(s, inst) ==
    IF add_instance_fails(s, inst) THEN s ELSE s \cup {inst}
\* get_instance: the row of an id, None when absent
get_instance(s, id) ==
    IF instance_exists(s, id)
    THEN Some(CHOOSE r \in s : r.instance_id = id)
    ELSE None
\* db.delete_instance
db_delete_instance(s, id) == { r \in s : r.instance_id # id }
\* db.update_instance: replaces the row of the instance's id; fails, leaving
\* the store as it is, when no row has that id
db_update_instance_fails(s, inst) == ~instance_exists(s, inst.instance_id)
db_update_instance(s, inst) ==
    IF db_update_instance_fails(s, inst) THEN s
    ELSE { r \in s : r.instance_id # inst.instance_id } \cup {inst}

RECURSIVE UpsertEach(_, _)
\* upsert_instance for each instance of a set, one after the other
UpsertEach(s, insts) ==
    IF insts = {} THEN s
    ELSE LET i == CHOOSE x \in insts : TRUE
         IN UpsertEach(upsert_instance(s, i), insts \ {i})

RECURSIVE DeleteEach(_, _)
\* db.delete_instance for each id of a set
DeleteEach(s, ids) ==
    IF ids = {} THEN s
    ELSE LET i == CHOOSE x \in ids : TRUE
         IN DeleteEach(db_delete_instance(s, i), ids \ {i})

(* ------------------------------------------------------------------ *)
(* detect_single_tool_by_detector                                      *)
(* ------------------------------------------------------------------ *)
\* format!("{}-local-{}", tool_id, now)
LocalId(tool_id, t) == <<tool_id, "local", t>>

\* result.stdout.lines().next().unwrap_or("").trim()
FirstLine(stdout) == IF stdout = << >> THEN "" ELSE Head(stdout)

\* a path lookup that takes the first line of a succeeding command as it is
LookupInstaller_Raw(w) ==
    IF w.success THEN Some(FirstLine(w.stdout)) ELSE None

\* the installer path found by the path-lookup command w (which npm takes
\* the first line, which brew the whole output: the outputs here have at most
\* one line)
LookupInstaller(w) ==
    IF w.success
    THEN (IF FirstLine(w.stdout) # "" THEN Some(FirstLine(w.stdout)) ELSE None)
    ELSE None

\* a detection that stamps its Local instance with a WSL distro
detect_single_tool_by_detector_Distro(tool_id, d, w, t) ==
    [ instance_id    |-> LocalId(tool_id, t),
      base_id        |-> tool_id,
      tool_name      |-> Unwrap(Tool_by_id(tool_id)).name,
      tool_type      |-> "Local",
      install_method |-> IF d.installed THEN d.method ELSE None,
      installed      |-> d.installed,
      version        |-> IF d.installed THEN d.version ELSE None,
      install_path   |-> IF d.installed THEN d.path ELSE None,
      installer_path |-> None,
      wsl_distro     |-> Some("Ubuntu"),
      ssh_config     |-> None,
      is_builtin     |-> TRUE,
      created_at     |-> t,
      updated_at     |-> t ]

\* d: what the detector's probes report; w: the path-lookup result; t: the clock
detect_single_tool_by_detector(tool_id, d, w, t) ==
    LET installed == d.installed
        version == IF installed THEN d.version ELSE None
        install_path == IF installed THEN d.path ELSE None
        install_method == IF installed THEN d.method ELSE None
        installer_path ==
            IF installed /\ IsSome(install_method)
            THEN CASE Unwrap(install_method) = "Npm"  -> LookupInstaller(w)
                   [] Unwrap(install_method) = "Brew" -> LookupInstaller(w)
                   [] OTHER -> None
            ELSE None
    IN [ instance_id    |-> LocalId(tool_id, t),
         base_id        |-> tool_id,
         tool_name      |-> Unwrap(Tool_by_id(tool_id)).name,
         tool_type      |-> "Local",
         install_method |-> install_method,
         installed      |-> installed,
         version        |-> version,
         install_path   |-> install_path,
         installer_path |-> installer_path,
         wsl_distro     |-> None,
         ssh_config     |-> None,
         is_builtin     |-> TRUE,
         created_at     |-> t,
         updated_at     |-> t ]

\* what a detector's four probes would answer, each on its own: is_installed,
\* get_version, get_install_path, detect_install_method
DetectorReports ==
    [ installed : BOOLEAN,
      version   : {None, Some(FirstVersion)},
      path      : {None, Some("/p1")},
      method    : {None} \cup { Some(m) : m \in InstallMethods } ]

\* a detection under way: the probe it awaits and the answers it has; the
\* first probe is is_installed
NewDetection == [stage |-> "is_installed", d |-> NotInstalled]

\* the awaited probe answers from what the tool is now (e): is_installed
\* ends the detection of a tool that is not installed; get_version,
\* get_install_path and detect_install_method follow one another; the path
\* lookup of the installer is awaited after a method Npm or Brew
Probe(det, e) ==
    CASE det.stage = "is_installed" ->
           IF e.installed
           THEN [stage |-> "get_version",
                 d |-> [NotInstalled EXCEPT !.installed = TRUE]]
           ELSE [stage |-> "done", d |-> NotInstalled]
      [] det.stage = "get_version" ->
           [stage |-> "get_install_path",
            d |-> [det.d EXCEPT !.version = e.version]]
      [] det.stage = "get_install_path" ->
           [stage |-> "detect_install_method",
            d |-> [det.d EXCEPT !.path = e.path]]
      [] det.stage = "detect_install_method" ->
           [stage |-> IF e.method \in {Some("Npm"), Some("Brew")}
                      THEN "which" ELSE "done",
            d |-> [det.d EXCEPT !.method = e.method]]
      [] OTHER -> [stage |-> "done", d |-> det.d]

\* the path lookups that can answer a detection at its stage: any, when the
\* lookup is what it awaits; none is run otherwise
Lookups(det) ==
    IF det.stage = "which" THEN WhichResults
    ELSE { [success |-> FALSE, stdout |-> << >>] }

\* the futures of a batch are collected: every detector's detection awaits
\* its first probe, none has completed
FanOut(op) ==
    [op |-> op, results |-> << >>,
     pending |-> [t \in all_detectors |-> NewDetection]]

(* ------------------------------------------------------------------ *)
(* Helpers of the step relation                                        *)
(* ------------------------------------------------------------------ *)
\* caller c moves to pc value l with locals v; it has no result yet
Goto(c, l, v) ==
    /\ pc' = [pc EXCEPT ![c] = l]
    /\ loc' = [loc EXCEPT ![c] = v]
    /\ ret' = [ret EXCEPT ![c] = NoRet]

\* caller c's operation returns r
Return(c, r) ==
    /\ pc' = [pc EXCEPT ![c] = "idle"]
    /\ loc' = [loc EXCEPT ![c] = NoLoc]
    /\ ret' = [ret EXCEPT ![c] = r]

\* caller c starts a store-changing operation
StartOp(c) ==
    /\ pc[c] = "idle"
    /\ nops < MaxOps
    /\ nops' = nops + 1

\* an Err result of operation op
Err(op, e) == [op |-> op, ok |-> FALSE, err |-> e]

\* the instances of a finished fan-out, as a set
Results(c) == { loc[c].results[t] : t \in DOMAIN loc[c].results }

(* ------------------------------------------------------------------ *)
(* The environment and the clock                                       *)
(* ------------------------------------------------------------------ *)
Tick ==
    /\ now < MaxClock
    /\ now' = now + 1
    /\ UNCHANGED <<cache, dashboard, store, env, pc, loc, ret, nops, nenv>>

\* a tool is installed at path p (or where no path lookup finds it) with
\* version v; the executables of two tools are two files
EnvInstall(t, p, v) ==
    /\ nenv < MaxEnvSteps
    /\ ~env[t].installed
    /\ p # None => \A u \in KnownTools : env[u].path # p
    /\ env' = [env EXCEPT ![t] = [installed |-> TRUE, version |-> Some(v),
                                  path |-> p, method |-> None]]
    /\ nenv' = nenv + 1
    /\ UNCHANGED <<cache, dashboard, store, now, pc, loc, ret, nops>>

\* an installed tool is upgraded, or stops reporting a version
EnvVersion(t, v) ==
    /\ nenv < MaxEnvSteps
    /\ env[t].installed
    /\ env[t].version # v
    /\ env' = [env EXCEPT ![t].version = v]
    /\ nenv' = nenv + 1
    /\ UNCHANGED <<cache, dashboard, store, now, pc, loc, ret, nops>>

\* the install method the detector infers for an installed tool becomes m
EnvMethod(t, m) ==
    /\ nenv < MaxEnvSteps
    /\ env[t].installed
    /\ env[t].method # Some(m)
    /\ env' = [env EXCEPT ![t].method = Some(m)]
    /\ nenv' = nenv + 1
    /\ UNCHANGED <<cache, dashboard, store, now, pc, loc, ret, nops>>

EnvUninstall(t) ==
    /\ nenv < MaxEnvSteps
    /\ env[t].installed
    /\ env' = [env EXCEPT ![t] = NotInstalled]
    /\ nenv' = nenv + 1
    /\ UNCHANGED <<cache, dashboard, store, now, pc, loc, ret, nops>>

\* one detection of a detector whose probes would answer d, the path lookup
\* answering w
detect_Run(c, tool_id, d, w) ==
    /\ StartOp(c)
    /\ Return(c, [op |-> "detect_single_tool_by_detector", tool_id |-> tool_id,
                  d |-> d, w |-> w, t |-> now,
                  instance |-> detect_single_tool_by_detector(tool_id, d, w, now)])
    /\ UNCHANGED <<cache, dashboard, store, env, now, nenv>>

(* ------------------------------------------------------------------ *)
(* detect_and_persist_local_tools                                      *)
(* ------------------------------------------------------------------ *)
\* the fan-out: one detection future per detector
dpl_Start(c) ==
    /\ StartOp(c)
    /\ Goto(c, "fan_detect", FanOut("detect_and_persist_local_tools"))
    /\ UNCHANGED <<cache, dashboard, store, env, now, nenv>>

\* after join_all: under the lock, upsert every result
dpl_Persist(c) ==
    /\ pc[c] = "dpl_persist"
    /\ store' = UpsertEach(store, Results(c))
    /\ Return(c, [op |-> "detect_and_persist_local_tools", ok |-> TRUE,
                  instances |-> loc[c].results])
    /\ UNCHANGED <<cache, dashboard, env, now, nops, nenv>>

(* ------------------------------------------------------------------ *)
(* detect_and_persist_single_tool                                      *)
(* ------------------------------------------------------------------ *)
\* the Local instances of tool_id, which step 1 deletes
\* a step 1 that finds no row to delete
OldLocalIds_None(s, tool_id) == {}

OldLocalIds(s, tool_id) ==
    { r.instance_id : r \in { x \in get_all_instances(s) :
                                x.base_id = tool_id /\ x.tool_type = "Local" } }

\* the ToolStatus that detect_single_tool_with_cache makes of an instance
CacheStatus(tool_id, instance) ==
    [ id |-> tool_id, name |-> instance.tool_name,
      installed |-> instance.installed, version |-> instance.version ]

\* what the caller of detect_and_persist_single_tool gets of its result r:
\* r itself, or, through detect_single_tool_with_cache, the error as it is
\* and the instance as a ToolStatus
Wrapped(via, r) ==
    IF via = "direct" THEN r
    ELSE IF r.ok
    THEN [r EXCEPT !.op = "detect_single_tool_with_cache"]
            @@ [status |-> CacheStatus(r.tool_id, r.instance), cached |-> FALSE]
    ELSE [r EXCEPT !.op = "detect_single_tool_with_cache"]

\* the detector lookup, then step 1: under the lock, delete the tool's Local rows
dps_Begin(c, tool_id, via) ==
    IF DetectorRegistry_get(tool_id) = None
    THEN /\ Return(c, Wrapped(via, Err("detect_and_persist_single_tool", "no_detector")))
         /\ store' = store
    ELSE /\ store' = DeleteEach(store, OldLocalIds(store, tool_id))
         /\ Goto(c, "dps_detect", [op |-> "detect_and_persist_single_tool",
                                   tool_id |-> tool_id,
                                   removed |-> OldLocalIds(store, tool_id),
                                   via |-> via,
                                   det |-> NewDetection])

dps_Start(c, tool_id) ==
    /\ StartOp(c)
    /\ dps_Begin(c, tool_id, "direct")
    /\ UNCHANGED <<cache, dashboard, env, now, nenv>>

\* step 2: the detection, one awaited probe at a time; the probe that ends
\* it reads the clock
dps_Detect(c) ==
    /\ pc[c] = "dps_detect"
    /\ LET det == Probe(loc[c].det, env[loc[c].tool_id])
       IN IF det.stage # "done"
          THEN Goto(c, "dps_detect", [loc[c] EXCEPT !.det = det])
          ELSE \E w \in Lookups(loc[c].det) :
                 Goto(c, "dps_check",
                      [op |-> "detect_and_persist_single_tool",
                       tool_id |-> loc[c].tool_id,
                       removed |-> loc[c].removed,
                       via |-> loc[c].via,
                       instance |-> detect_single_tool_by_detector(
                                        loc[c].tool_id, det.d, w, now)])
    /\ UNCHANGED <<cache, dashboard, store, env, now, nops, nenv>>

\* a path-conflict check that looks at the tool's own rows instead of the
\* other tools' rows
PathConflicts_OwnRows(s, instance, tool_id) ==
    { inst \in get_all_instances(s) :
        /\ inst.install_path = instance.install_path
        /\ inst.tool_type = "Local"
        /\ inst.base_id = tool_id }

\* the instances the path-conflict check of step 3 finds for a detected instance
PathConflicts(s, instance, tool_id) ==
    { inst \in get_all_instances(s) :
        /\ inst.install_path = instance.install_path
        /\ inst.tool_type = "Local"
        /\ inst.base_id # tool_id }

\* step 3: the path-conflict check, on a snapshot read under the lock
dps_Check(c) ==
    /\ pc[c] = "dps_check"
    /\ LET instance == loc[c].instance
           found == IF instance.installed /\ IsSome(instance.install_path)
                    THEN PathConflicts(store, instance, loc[c].tool_id)
                    ELSE {}
       IN IF found # {}
          THEN \E existing \in found :
                 Return(c, Wrapped(loc[c].via,
                           [op |-> "detect_and_persist_single_tool", ok |-> FALSE,
                            err |-> "path_conflict", used_by |-> existing.tool_name,
                            tool_id |-> loc[c].tool_id,
                            removed |-> loc[c].removed,
                            path |-> instance.install_path]))
          ELSE Goto(c, "dps_save", loc[c])
    /\ UNCHANGED <<cache, dashboard, store, env, now, nops, nenv>>

\* a step 4 that saves whatever was detected
persist_always(s, instance) == upsert_instance(s, instance)

\* step 4: the store after the instance is saved: only an installed one is
persist_detected(s, instance) ==
    IF instance.installed THEN upsert_instance(s, instance) ELSE s

\* step 4, under the lock
dps_Save(c) ==
    /\ pc[c] = "dps_save"
    /\ store' = persist_detected(store, loc[c].instance)
    /\ Return(c, Wrapped(loc[c].via,
                 [op |-> "detect_and_persist_single_tool", ok |-> TRUE,
                  tool_id |-> loc[c].tool_id, removed |-> loc[c].removed,
                  instance |-> loc[c].instance]))
    /\ UNCHANGED <<cache, dashboard, env, now, nops, nenv>>

(* ------------------------------------------------------------------ *)
(* detect_single_tool_with_cache                                       *)
(* ------------------------------------------------------------------ *)
\* the rows that answer without a detection, all Local rows of the tool
\* whether installed or not
CachedLocals_Any(all_instances, tool_id) ==
    { inst \in all_instances :
        inst.base_id = tool_id /\ inst.tool_type = "Local" }

\* the rows that answer without a detection: the installed Local rows of the
\* tool (find takes the first of them in the order of the store)
CachedLocals(all_instances, tool_id) ==
    { inst \in all_instances :
        inst.base_id = tool_id /\ inst.tool_type = "Local" /\ inst.installed }

\* unless forced, the snapshot read under the lock and the lookup in it; a
\* row found is the answer
dswc_Start(c, tool_id, force_redetect) ==
    /\ StartOp(c)
    /\ LET found == IF force_redetect THEN {}
                    ELSE CachedLocals(get_all_instances(store), tool_id)
       IN IF found # {}
          THEN \E existing \in found :
                 Return(c, [op |-> "detect_single_tool_with_cache", ok |-> TRUE,
                            tool_id |-> tool_id, force_redetect |-> force_redetect,
                            status |-> [id |-> tool_id, name |-> existing.tool_name,
                                        installed |-> TRUE,
                                        version |-> existing.version],
                            cached |-> TRUE])
          ELSE Goto(c, "dswc_detect", [op |-> "detect_single_tool_with_cache",
                                       tool_id |-> tool_id,
                                       force_redetect |-> force_redetect])
    /\ UNCHANGED <<cache, dashboard, store, env, now, nenv>>

\* the call of detect_and_persist_single_tool, up to the end of its step 1
dswc_Delegate(c) ==
    /\ pc[c] = "dswc_detect"
    /\ dps_Begin(c, loc[c].tool_id, "with_cache")
    /\ UNCHANGED <<cache, dashboard, env, now, nops, nenv>>

(* ------------------------------------------------------------------ *)
(* refresh_local_tools                                                 *)
(* ------------------------------------------------------------------ *)
\* the fan-out: one detection future per detector
rlt_Start(c) ==
    /\ StartOp(c)
    /\ Goto(c, "fan_detect", FanOut("refresh_local_tools"))
    /\ UNCHANGED <<cache, dashboard, store, env, now, nenv>>

\* a reconciliation that spares the rows the user added
Gone_BuiltinOnly(s, results) ==
    LET existing_local == { x \in get_local_instances(s) : x.is_builtin }
        detected_ids == { r.instance_id : r \in { x \in results : x.installed } }
    IN { e.instance_id :
           e \in { x \in existing_local : x.instance_id \notin detected_ids } }

\* the ids of the existing Local rows that are not among the detected installed ones
Gone(s, results) ==
    LET existing_local == get_local_instances(s)
        detected_ids == { r.instance_id : r \in { x \in results : x.installed } }
    IN { e.instance_id :
           e \in { x \in existing_local : x.instance_id \notin detected_ids } }

\* the store after the reconciliation of the results against its Local rows
Reconcile(s, results) ==
    UpsertEach(DeleteEach(s, Gone(s, results)), { x \in results : x.installed })

\* under the lock: delete what is no longer detected, upsert what is installed
rlt_Reconcile(c) ==
    /\ pc[c] = "rlt_reconcile"
    /\ store' = Reconcile(store, Results(c))
    /\ Return(c, [op |-> "refresh_local_tools", ok |-> TRUE,
                  removed |-> Gone(store, Results(c)),
                  instances |-> { x \in Results(c) : x.installed }])
    /\ UNCHANGED <<cache, dashboard, env, now, nops, nenv>>

(* ------------------------------------------------------------------ *)
(* The fan-out of the batch operations, one detection at a time        *)
(* ------------------------------------------------------------------ *)
\* join_all(futures).await: every detector's future has completed
AllJoined_Any(results) == DOMAIN results # {}
AllJoined(results) == DOMAIN results = all_detectors

\* the detection of detector t takes the answer of the probe it awaits; the
\* probe that ends it reads the clock, and the detection has completed
fan_Detect(c, t) ==
    /\ pc[c] = "fan_detect"
    /\ t \in DOMAIN loc[c].pending
    /\ LET det == Probe(loc[c].pending[t], env[t])
       IN IF det.stage # "done"
          THEN Goto(c, "fan_detect", [loc[c] EXCEPT !.pending[t] = det])
          ELSE \E w \in Lookups(loc[c].pending[t]) :
                 LET r == detect_single_tool_by_detector(t, det.d, w, now)
                 IN Goto(c, "fan_detect",
                         [loc[c] EXCEPT
                            !.results =
                               [x \in DOMAIN loc[c].results \cup {t} |->
                                   IF x = t THEN r ELSE loc[c].results[x]],
                            !.pending =
                               [x \in DOMAIN loc[c].pending \ {t} |->
                                   loc[c].pending[x]]])
    /\ UNCHANGED <<cache, dashboard, store, env, now, nops, nenv>>

\* the join: the operation goes on to its lock scope
fan_Join(c) ==
    /\ pc[c] = "fan_detect"
    /\ AllJoined(loc[c].results)
    /\ Goto(c, IF loc[c].op = "refresh_local_tools" THEN "rlt_reconcile"
                                                   ELSE "dpl_persist",
             [op |-> loc[c].op, results |-> loc[c].results])
    /\ UNCHANGED <<cache, dashboard, store, env, now, nops, nenv>>

\* the instances of the results whose upsert works, when the upserts of the
\* tools in failed fail
Upserted(results, failed) == { results[t] : t \in DOMAIN results \ failed }

\* a batch that stops at the first failing upsert
PersistOutcome_Fatal(s, results, failed) ==
    IF failed = {}
    THEN [ok |-> TRUE, store |-> UpsertEach(s, Upserted(results, failed)),
          instances |-> results]
    ELSE [ok |-> FALSE, store |-> s, instances |-> << >>]

\* the loop over the results under the lock: a failing upsert is logged, the
\* instance is pushed all the same
PersistOutcome(s, results, failed) ==
    [ok |-> TRUE, store |-> UpsertEach(s, Upserted(results, failed)),
     instances |-> results]

\* detect_and_persist_local_tools after the join, with a store whose upserts
\* of the tools in failed fail
dpl_PersistSome(c, failed) ==
    /\ pc[c] = "dpl_persist"
    /\ LET o == PersistOutcome(store, loc[c].results, failed)
       IN /\ store' = o.store
          /\ Return(c, [op |-> "detect_and_persist_local_tools", ok |-> o.ok,
                        instances |-> o.instances, failed |-> failed])
    /\ UNCHANGED <<cache, dashboard, env, now, nops, nenv>>

(* ------------------------------------------------------------------ *)
(* validate_tool_path                                                  *)
(* ------------------------------------------------------------------ *)
\* char::is_whitespace and char::is_numeric on the characters of the model
IsWhitespace(ch) == ch \in {" ", "\n"}
IsNumeric(ch) == ch \in {"0", "1", "2", "3", "4", "5", "6", "7", "8", "9"}

RECURSIVE TrimStart(_)
TrimStart(str) ==
    IF str # << >> /\ IsWhitespace(Head(str)) THEN TrimStart(Tail(str)) ELSE str

RECURSIVE TrimEnd(_)
TrimEnd(str) ==
    IF str # << >> /\ IsWhitespace(str[Len(str)])
    THEN TrimEnd(SubSeq(str, 1, Len(str) - 1))
    ELSE str

\* str::trim
Trim(str) == TrimEnd(TrimStart(str))

\* what the file system and "{path} --version" answer for a path
Stdouts == { << >>, <<" ">>, <<"a">>, <<"1">>, <<" ", "2", "\n">> }
CmdResults ==
    { [success |-> FALSE, stdout |-> << >>] } \cup
    { [success |-> TRUE, stdout |-> o] : o \in Stdouts }
NoResult == [success |-> FALSE, stdout |-> << >>]
PathFacts ==
    { [exists |-> FALSE, is_file |-> FALSE, result |-> NoResult],
      [exists |-> TRUE,  is_file |-> FALSE, result |-> NoResult] } \cup
    { [exists |-> TRUE, is_file |-> TRUE, result |-> r] : r \in CmdResults }

\* a validation that accepts any non-empty answer as a version
validate_tool_path_AnyVersion(f) ==
    LET version_str == Trim(f.result.stdout)
    IN IF ~f.exists THEN [ok |-> FALSE, err |-> "path_not_exist"]
       ELSE IF ~(f.exists /\ f.is_file) THEN [ok |-> FALSE, err |-> "path_not_file"]
       ELSE IF ~f.result.success THEN [ok |-> FALSE, err |-> "command_failed"]
       ELSE IF version_str = << >> THEN [ok |-> FALSE, err |-> "no_version"]
       ELSE [ok |-> TRUE, version |-> version_str]

\* a validation that returns the command's output as it came
validate_tool_path_Untrimmed(f) ==
    LET version_str == Trim(f.result.stdout)
    IN IF ~f.exists THEN [ok |-> FALSE, err |-> "path_not_exist"]
       ELSE IF ~(f.exists /\ f.is_file) THEN [ok |-> FALSE, err |-> "path_not_file"]
       ELSE IF ~f.result.success THEN [ok |-> FALSE, err |-> "command_failed"]
       ELSE IF version_str = << >> THEN [ok |-> FALSE, err |-> "no_version"]
       ELSE IF ~(\E i \in 1..Len(version_str) : IsNumeric(version_str[i]))
            THEN [ok |-> FALSE, err |-> "invalid_version"]
       ELSE [ok |-> TRUE, version |-> f.result.stdout]

\* f: the facts about the path.  Ok(version string) or the error
validate_tool_path(f) ==
    LET version_str == Trim(f.result.stdout)
    IN IF ~f.exists THEN [ok |-> FALSE, err |-> "path_not_exist"]
       ELSE IF ~(f.exists /\ f.is_file) THEN [ok |-> FALSE, err |-> "path_not_file"]
       ELSE IF ~f.result.success THEN [ok |-> FALSE, err |-> "command_failed"]
       ELSE IF version_str = << >> THEN [ok |-> FALSE, err |-> "no_version"]
       ELSE IF ~(\E i \in 1..Len(version_str) : IsNumeric(version_str[i]))
            THEN [ok |-> FALSE, err |-> "invalid_version"]
       ELSE [ok |-> TRUE, version |-> version_str]

\* validate_tool_path called on its own, up to the command: a path that does
\* not exist or is no file is refused before any command runs
vtp_Start(c, path, exists, is_file) ==
    /\ pc[c] = "idle"
    /\ exists \/ ~is_file
    /\ LET f == [exists |-> exists, is_file |-> is_file, result |-> NoResult]
       IN IF exists /\ is_file
          THEN Goto(c, "vtp_exec", [op |-> "validate_tool_path", path |-> path])
          ELSE Return(c, validate_tool_path(f) @@
                         [op |-> "validate_tool_path", path |-> path,
                          exists |-> exists, is_file |-> is_file, executed |-> FALSE])
    /\ UNCHANGED <<cache, dashboard, store, env, now, nops, nenv>>

\* the command `{path} --version` has run, and its output is judged
vtp_Exec(c) ==
    /\ pc[c] = "vtp_exec"
    /\ \E result \in CmdResults :
         Return(c, validate_tool_path([exists |-> TRUE, is_file |-> TRUE,
                                       result |-> result]) @@
                   [op |-> "validate_tool_path", path |-> loc[c].path,
                    exists |-> TRUE, is_file |-> TRUE, executed |-> TRUE,
                    result |-> result])
    /\ UNCHANGED <<cache, dashboard, store, env, now, nops, nenv>>

(* ------------------------------------------------------------------ *)
(* add_tool_instance                                                   *)
(* ------------------------------------------------------------------ *)
\* the arguments a caller passes
InstallerFacts ==
    { [exists |-> FALSE, is_file |-> FALSE],
      [exists |-> TRUE,  is_file |-> FALSE],
      [exists |-> TRUE,  is_file |-> TRUE] }

\* the facts about an installer path: there are none to tell of an absent one
InstallerFactsOf(installer_path) ==
    IF IsSome(installer_path)
    THEN InstallerFacts
    ELSE { [exists |-> FALSE, is_file |-> FALSE] }

\* the tool ids given here: a known one and one no detector knows
AddToolIds == {"claude-code", UnknownTool}
AddMethods == {"Npm", "Other"}
ati_Start(c, tool_id, path, install_method, installer_path) ==
    /\ StartOp(c)
    /\ Goto(c, "ati_validate", [op |-> "add_tool_instance", tool_id |-> tool_id,
                                path |-> path, install_method |-> install_method,
                                installer_path |-> installer_path])
    /\ UNCHANGED <<cache, dashboard, store, env, now, nenv>>

\* step 2: the installer path is needed, and must be a file, unless the method is Other
installer_check(install_method, installer_path, g) ==
    IF install_method # "Other"
    THEN IF IsSome(installer_path)
         THEN IF ~g.exists THEN [ok |-> FALSE, err |-> "installer_not_exist"]
              ELSE IF ~(g.exists /\ g.is_file)
                   THEN [ok |-> FALSE, err |-> "installer_not_file"]
              ELSE [ok |-> TRUE]
         ELSE [ok |-> FALSE, err |-> "installer_required"]
    ELSE [ok |-> TRUE]

\* steps 1 and 2: validate the tool path (a probe), then the installer path;
\* f, g: what the file system holds for the two paths
ati_Validate(c, f, g) ==
    /\ pc[c] = "ati_validate"
    /\ g \in InstallerFactsOf(loc[c].installer_path)
    /\ LET v == validate_tool_path(f)
           i == installer_check(loc[c].install_method, loc[c].installer_path, g)
           seen == [install_method |-> loc[c].install_method,
                    installer_path |-> loc[c].installer_path,
                    path_facts |-> f, installer_facts |-> g]
       IN   IF ~v.ok
            THEN Return(c, Err("add_tool_instance", v.err) @@ seen)
            ELSE IF ~i.ok
            THEN Return(c, Err("add_tool_instance", i.err) @@ seen)
            ELSE Goto(c, "ati_save", loc[c] @@ seen @@ [version |-> v.version])
    /\ UNCHANGED <<cache, dashboard, store, env, now, nops, nenv>>

\* a step 3 that finds no claim
PathClaims_None(s, path) == {}

\* step 3: the Local instances that already claim the path
PathClaims(s, path) ==
    { inst \in get_all_instances(s) :
        inst.install_path = Some(path) /\ inst.tool_type = "Local" }

\* step 5: the instance add_tool_instance builds
ManualInstance(tool_id, path, install_method, installer_path, version, t) ==
    [ instance_id    |-> LocalId(tool_id, t),
      base_id        |-> tool_id,
      tool_name      |-> DisplayName(tool_id),
      tool_type      |-> "Local",
      install_method |-> Some(install_method),
      installed      |-> TRUE,
      version        |-> Some(version),
      install_path   |-> Some(path),
      installer_path |-> installer_path,
      wsl_distro     |-> None,
      ssh_config     |-> None,
      is_builtin     |-> FALSE,
      created_at     |-> t,
      updated_at     |-> t ]

\* steps 3 to 7, under the lock: the path-conflict check, then the insert
ati_Save(c) ==
    /\ pc[c] = "ati_save"
    /\ LET a == loc[c]
           found == PathClaims(store, a.path)
           instance == ManualInstance(a.tool_id, a.path, a.install_method,
                                      a.installer_path, a.version, now)
       IN IF found # {}
          THEN /\ \E existing \in found :
                    Return(c, [op |-> "add_tool_instance", ok |-> FALSE,
                               err |-> "path_conflict",
                               used_by |-> existing.tool_name,
                               tool_id |-> a.tool_id, path |-> Some(a.path)])
               /\ store' = store
          ELSE IF add_instance_fails(store, instance)
          THEN /\ Return(c, Err("add_tool_instance", "duplicate_id"))
               /\ store' = store
          ELSE /\ store' = add_instance(store, instance)
               /\ Return(c, [op |-> "add_tool_instance", ok |-> TRUE,
                             status |-> [id |-> a.tool_id,
                                         name |-> DisplayName(a.tool_id),
                                         installed |-> TRUE,
                                         version |-> Some(a.version)],
                             instance_id |-> instance.instance_id,
                             path |-> Some(a.path)])
    /\ UNCHANGED <<cache, dashboard, env, now, nops, nenv>>

(* ------------------------------------------------------------------ *)
(* add_wsl_instance, add_ssh_instance, delete_instance                 *)
(* ------------------------------------------------------------------ *)
\* ToolInstance::create_wsl_instance
create_wsl_instance(base_id, tool_name, distro_name, installed, version, install_path, t) ==
    [ instance_id    |-> <<base_id, "wsl", distro_name>>,
      base_id        |-> base_id,
      tool_name      |-> tool_name,
      tool_type      |-> "WSL",
      install_method |-> None,
      installed      |-> installed,
      version        |-> version,
      install_path   |-> install_path,
      installer_path |-> None,
      wsl_distro     |-> Some(distro_name),
      ssh_config     |-> None,
      is_builtin     |-> FALSE,
      created_at     |-> t,
      updated_at     |-> t ]

\* ToolInstance::create_ssh_instance
create_ssh_instance(base_id, tool_name, ssh_config, installed, version, install_path, t) ==
    [ instance_id    |-> <<base_id, "ssh", ssh_config>>,
      base_id        |-> base_id,
      tool_name      |-> tool_name,
      tool_type      |-> "SSH",
      install_method |-> None,
      installed      |-> installed,
      version        |-> version,
      install_path   |-> install_path,
      installer_path |-> None,
      wsl_distro     |-> None,
      ssh_config     |-> Some(ssh_config),
      is_builtin     |-> FALSE,
      created_at     |-> t,
      updated_at     |-> t ]

\* what detect_tool_in_distro answers: an error, or (installed, version, path)
WslProbes ==
    { [ok |-> FALSE, installed |-> FALSE, version |-> None, path |-> None],
      [ok |-> TRUE,  installed |-> FALSE, version |-> None, path |-> None],
      [ok |-> TRUE,  installed |-> TRUE,  version |-> Some(FirstVersion),
       path |-> Some("/p1")] }

\* the WSL capability check and the Tool lookup
wsl_Start(c, base_id, distro_name) ==
    /\ StartOp(c)
    /\ \E available \in BOOLEAN :
         IF ~available
         THEN Return(c, Err("add_wsl_instance", "wsl_unavailable"))
         ELSE IF Tool_by_id(base_id) = None
         THEN Return(c, Err("add_wsl_instance", "unknown_tool"))
         ELSE Goto(c, "wsl_probe", [op |-> "add_wsl_instance", base_id |-> base_id,
                                    distro_name |-> distro_name])
    /\ UNCHANGED <<cache, dashboard, store, env, now, nenv>>

\* the probe of the distro, then the instance is built
wsl_Probe(c) ==
    /\ pc[c] = "wsl_probe"
    /\ \E r \in WslProbes :
         IF ~r.ok
         THEN Return(c, Err("add_wsl_instance", "probe_failed"))
         ELSE Goto(c, "wsl_save",
                   [op |-> "add_wsl_instance",
                    instance |-> create_wsl_instance(
                        loc[c].base_id, Unwrap(Tool_by_id(loc[c].base_id)).name,
                        loc[c].distro_name, r.installed, r.version, r.path, now)])
    /\ UNCHANGED <<cache, dashboard, store, env, now, nops, nenv>>

\* under the lock: insert
wsl_Save(c) ==
    /\ pc[c] = "wsl_save"
    /\ store' = add_instance(store, loc[c].instance)
    /\ IF add_instance_fails(store, loc[c].instance)
       THEN Return(c, Err("add_wsl_instance", "duplicate_id")
                         @@ [instance |-> loc[c].instance])
       ELSE Return(c, [op |-> "add_wsl_instance", ok |-> TRUE,
                       instance |-> loc[c].instance])
    /\ UNCHANGED <<cache, dashboard, env, now, nops, nenv>>

\* the Tool lookup, then the instance is built (no detection)
ssh_Start(c, base_id, ssh_config) ==
    /\ StartOp(c)
    /\ IF Tool_by_id(base_id) = None
       THEN Return(c, Err("add_ssh_instance", "unknown_tool"))
       ELSE Goto(c, "ssh_save",
                 [op |-> "add_ssh_instance",
                  instance |-> create_ssh_instance(
                      base_id, Unwrap(Tool_by_id(base_id)).name, ssh_config,
                      FALSE, None, None, now)])
    /\ UNCHANGED <<cache, dashboard, store, env, now, nenv>>

\* under the lock: the existence check, then the insert
ssh_Save(c) ==
    /\ pc[c] = "ssh_save"
    /\ IF instance_exists(store, loc[c].instance.instance_id)
       THEN /\ Return(c, Err("add_ssh_instance", "already_exists")
                              @@ [instance |-> loc[c].instance])
            /\ store' = store
       ELSE /\ store' = add_instance(store, loc[c].instance)
            /\ Return(c, [op |-> "add_ssh_instance", ok |-> TRUE,
                          instance |-> loc[c].instance])
    /\ UNCHANGED <<cache, dashboard, env, now, nops, nenv>>

\* a delete_instance without the check of the instance's type
delete_instance_error_AnyType(s, instance_id) ==
    LET instance == get_instance(s, instance_id)
    IN IF instance = None THEN "not_found"
       ELSE IF Unwrap(instance).is_builtin THEN "builtin"
       ELSE ""

\* the outcome of delete_instance on store s: the error, or "" when it deletes
delete_instance_error(s, instance_id) ==
    LET instance == get_instance(s, instance_id)
    IN IF instance = None THEN "not_found"
       ELSE IF Unwrap(instance).tool_type # "SSH" THEN "not_ssh"
       ELSE IF Unwrap(instance).is_builtin THEN "builtin"
       ELSE ""

\* delete_instance: the whole operation runs under the lock
del_Run(c, instance_id) ==
    /\ StartOp(c)
    /\ LET e == delete_instance_error(store, instance_id)
       IN IF e # ""
          THEN /\ Return(c, Err("delete_instance", e) @@ [instance_id |-> instance_id])
               /\ store' = store
          ELSE /\ store' = db_delete_instance(store, instance_id)
               /\ Return(c, [op |-> "delete_instance", ok |-> TRUE,
                             instance_id |-> instance_id])
    /\ UNCHANGED <<cache, dashboard, env, now, nenv>>

\* the ids a caller may ask to delete: every stored one, and one that is not stored
AbsentId == <<"codex", "ssh", "nohost">>
DeleteIds == { r.instance_id : r \in store } \cup {AbsentId}

(* ------------------------------------------------------------------ *)
(* update_instance                                                     *)
(* ------------------------------------------------------------------ *)
\* what InstallerService::update_instance_by_installer answers: an error, or
\* an UpdateResult with its success flag and the version it reports
InstallerResults ==
    { [ok |-> FALSE, success |-> FALSE, current_version |-> None] } \cup
    { [ok |-> TRUE, success |-> b, current_version |-> v] :
        b \in BOOLEAN, v \in {None, Some(<<"2">>)} }

\* a lookup by id alone
FindById_AnyType(all_instances, instance_id) ==
    { inst \in all_instances : inst.instance_id = instance_id }

\* all_instances.iter().find(id and Local): the matching instances of a snapshot
FindLocalById(all_instances, instance_id) ==
    { inst \in all_instances :
        inst.instance_id = instance_id /\ inst.tool_type = "Local" }

\* step 1: the snapshot read under the lock, then the lookup in it
upd_Start(c, instance_id, force) ==
    /\ StartOp(c)
    /\ LET found == FindLocalById(get_all_instances(store), instance_id)
       IN IF found = {}
          THEN Return(c, Err("update_instance", "not_found")
                            @@ [instance_id |-> instance_id])
          ELSE \E instance \in found :
                 Goto(c, "upd_install", [op |-> "update_instance",
                                         instance |-> instance, force |-> force])
    /\ UNCHANGED <<cache, dashboard, store, env, now, nenv>>

\* step 2: the installer runs; its error is the operation's error, and a
\* result that is no success or carries no version is returned as it is
upd_Install(c) ==
    /\ pc[c] = "upd_install"
    /\ \E result \in InstallerResults :
         IF ~result.ok
         THEN Return(c, Err("update_instance", "installer_error")
                           @@ [instance |-> loc[c].instance])
         ELSE IF result.success /\ IsSome(result.current_version)
         THEN Goto(c, "upd_write", loc[c] @@ [result |-> result])
         ELSE Return(c, [op |-> "update_instance", ok |-> TRUE,
                         result |-> result, instance |-> loc[c].instance])
    /\ UNCHANGED <<cache, dashboard, store, env, now, nops, nenv>>

\* a write-back that leaves updated_at as it was
WithVersion_KeepStamp(instance, version, t) ==
    [instance EXCEPT !.version = version]

\* the instance written back: the snapshot's instance with the new version
\* and a fresh updated_at
WithVersion(instance, version, t) ==
    [instance EXCEPT !.version = version, !.updated_at = t]

\* step 3, under the lock: the version is written back; when the store
\* refuses the write the failure is logged only, the row stays as it was and
\* the result is returned all the same
upd_Write(c) ==
    /\ pc[c] = "upd_write"
    /\ \/ store' = db_update_instance(
                       store, WithVersion(loc[c].instance,
                                          Some(Unwrap(loc[c].result.current_version)), now))
       \/ store' = store
    /\ Return(c, [op |-> "update_instance", ok |-> TRUE,
                  result |-> loc[c].result, instance |-> loc[c].instance])
    /\ UNCHANGED <<cache, dashboard, env, now, nops, nenv>>

(* ------------------------------------------------------------------ *)
(* utils::version::parse_version_string                                *)
(* ------------------------------------------------------------------ *)
\* \w of the version pattern: a letter (of ASCII), a digit or the underscore
IsWord(ch) ==
    LET Letters ==
            { "a", "b", "c", "d", "e", "f", "g", "h", "i", "j", "k", "l", "m",
              "n", "o", "p", "q", "r", "s", "t", "u", "v", "w", "x", "y", "z",
              "A", "B", "C", "D", "E", "F", "G", "H", "I", "J", "K", "L", "M",
              "N", "O", "P", "Q", "R", "S", "T", "U", "V", "W", "X", "Y", "Z" }
    IN IsNumeric(ch) \/ ch \in Letters \/ ch = "_"

RECURSIVE RunEnd(_, _, _)
\* the position after the longest run, from position i, of characters of
\* the class cls ("d": \d, "w": [\w.]); i itself when the run is empty
RunEnd(str, i, cls) ==
    IF i <= Len(str) /\ (IF cls = "d" THEN IsNumeric(str[i])
                                       ELSE IsWord(str[i]) \/ str[i] = ".")
    THEN RunEnd(str, i + 1, cls)
    ELSE i

\* \d+\.\d+\.\d+(?:-[\w.]+)? matched at position i: the position after the
\* match, 0 when there is none
MatchCore(str, i) ==
    LET e1 == RunEnd(str, i, "d")
        e2 == RunEnd(str, e1 + 1, "d")
        e3 == RunEnd(str, e2 + 1, "d")
        e4 == RunEnd(str, e3 + 1, "w")
    IN IF e1 > i /\ e1 <= Len(str) /\ str[e1] = "."
          /\ e2 > e1 + 1 /\ e2 <= Len(str) /\ str[e2] = "."
          /\ e3 > e2 + 1
       THEN (IF e3 <= Len(str) /\ str[e3] = "-" /\ e4 > e3 + 1 THEN e4 ELSE e3)
       ELSE 0

\* v?(...) matched at position i: the capture group as <<from, after>>,
\* << >> when there is no match at i
MatchAt(str, i) ==
    IF i <= Len(str) /\ str[i] = "v" /\ MatchCore(str, i + 1) # 0
    THEN <<i + 1, MatchCore(str, i + 1)>>
    ELSE IF MatchCore(str, i) # 0 THEN <<i, MatchCore(str, i)>>
    ELSE << >>

\* VERSION_REGEX.captures(trimmed): group 1 of the leftmost match
Captures(str) ==
    LET starts == { i \in 1..Len(str) : MatchAt(str, i) # << >> }
    IN IF starts = {} THEN None
       ELSE LET i == CHOOSE x \in starts : \A y \in starts : x <= y
                m == MatchAt(str, i)
            IN Some(SubSeq(str, m[1], m[2] - 1))

RECURSIVE SplitWhitespace(_)
\* str::split_whitespace
SplitWhitespace(str) ==
    LET t == TrimStart(str)
        ends == { i \in 1..Len(t) : IsWhitespace(t[i]) }
        e == IF ends = {} THEN Len(t) + 1
             ELSE CHOOSE x \in ends : \A y \in ends : x <= y
    IN IF t = << >> THEN << >>
       ELSE <<SubSeq(t, 1, e - 1)>> \o SplitWhitespace(SubSeq(t, e, Len(t)))

RECURSIVE TrimStartV(_)
\* str::trim_start_matches('v')
TrimStartV(str) ==
    IF str # << >> /\ Head(str) = "v" THEN TrimStartV(Tail(str)) ELSE str

\* the four strategies, in their order
parse_version_string(raw) ==
    LET trimmed == Trim(raw)
        brackets == { i \in 1..Len(trimmed) : trimmed[i] = "(" }
        idx == CHOOSE x \in brackets : \A y \in brackets : x <= y
        before_bracket == Trim(SubSeq(trimmed, 1, idx - 1))
        parts == SplitWhitespace(trimmed)
        numeric == { i \in 1..Len(parts) : IsNumeric(parts[i][1]) }
        first == CHOOSE x \in numeric : \A y \in numeric : x <= y
    IN IF IsSome(Captures(trimmed)) THEN Unwrap(Captures(trimmed))
       ELSE IF brackets # {} /\ before_bracket # << >> THEN before_bracket
       ELSE IF Len(parts) > 1 /\ numeric # {} THEN TrimStartV(parts[first])
       ELSE TrimStartV(trimmed)

(* ------------------------------------------------------------------ *)
(* check_update_for_instance, refresh_all_tool_versions                *)
(* ------------------------------------------------------------------ *)
\* what `{path} --version` prints, and what the command executor answers
VersionOutputs == { <<"1">>, <<"v", "2", "\n">> }
VersionCmdResults ==
    { [success |-> FALSE, stdout |-> << >>] } \cup
    { [success |-> TRUE, stdout |-> o] : o \in VersionOutputs }

\* what VersionService::check_version answers: an error, or a VersionInfo
VersionInfos ==
    { [ok |-> FALSE, has_update |-> FALSE, latest_version |-> None],
      [ok |-> TRUE,  has_update |-> FALSE, latest_version |-> Some(<<"1">>)],
      [ok |-> TRUE,  has_update |-> TRUE,  latest_version |-> Some(<<"2">>)] }

\* Some(parse_version_string(result.stdout.trim()))
ProbedVersion(result) == Some(parse_version_string(Trim(result.stdout)))

\* step 1: the snapshot read under the lock, then the lookup in it
chk_Start(c, instance_id) ==
    /\ StartOp(c)
    /\ LET found == FindLocalById(get_all_instances(store), instance_id)
       IN IF found = {}
          THEN Return(c, Err("check_update_for_instance", "not_found")
                            @@ [instance_id |-> instance_id])
          ELSE \E instance \in found :
                 Goto(c, "chk_version", [op |-> "check_update_for_instance",
                                         instance |-> instance])
    /\ UNCHANGED <<cache, dashboard, store, env, now, nenv>>

\* step 2 with a failing version command falling back to the stored version
chk_Version_Fallback(c) ==
    /\ pc[c] = "chk_version"
    /\ LET instance == loc[c].instance
       IN IF IsSome(instance.install_path)
          THEN \E result \in VersionCmdResults :
                 Goto(c, "chk_remote",
                      loc[c] @@ [current_version |->
                                     IF result.success THEN ProbedVersion(result)
                                     ELSE instance.version,
                                 version_cmd |-> Some(result)])
          ELSE Goto(c, "chk_remote",
                    loc[c] @@ [current_version |-> instance.version,
                               version_cmd |-> None])
    /\ UNCHANGED <<cache, dashboard, store, env, now, nops, nenv>>

\* step 2: the version command of the instance's path; its failure is the
\* operation's error, and an instance without a path keeps its stored version
\* (version_cmd is the command's result, None when no command was run)
chk_Version(c) ==
    /\ pc[c] = "chk_version"
    /\ LET instance == loc[c].instance
       IN IF IsSome(instance.install_path)
          THEN \E result \in VersionCmdResults :
                 IF result.success
                 THEN Goto(c, "chk_remote",
                           loc[c] @@ [current_version |-> ProbedVersion(result),
                                      version_cmd |-> Some(result)])
                 ELSE Return(c, Err("check_update_for_instance", "version_command_failed")
                                   @@ [instance |-> instance,
                                       version_cmd |-> Some(result)])
          ELSE Goto(c, "chk_remote",
                    loc[c] @@ [current_version |-> instance.version,
                               version_cmd |-> None])
    /\ UNCHANGED <<cache, dashboard, store, env, now, nops, nenv>>

\* an UpdateResult that loses the observed version when the remote check fails
UpdateResultOf_NoVersion(info, current_version, tool_id) ==
    [ success         |-> TRUE,
      message         |-> IF info.ok THEN "check_done" ELSE "could_not_check",
      has_update      |-> IF info.ok THEN info.has_update ELSE FALSE,
      current_version |-> IF info.ok THEN current_version ELSE None,
      latest_version  |-> IF info.ok THEN info.latest_version ELSE None,
      tool_id         |-> Some(tool_id) ]

\* the UpdateResult built from the version service's answer
UpdateResultOf(info, current_version, tool_id) ==
    [ success         |-> TRUE,
      message         |-> IF info.ok THEN "check_done" ELSE "could_not_check",
      has_update      |-> IF info.ok THEN info.has_update ELSE FALSE,
      current_version |-> current_version,
      latest_version  |-> IF info.ok THEN info.latest_version ELSE None,
      tool_id         |-> Some(tool_id) ]

\* step 3 with the write-back skipped when the remote check failed
chk_Remote_WriteOnSuccess(c) ==
    /\ pc[c] = "chk_remote"
    /\ LET instance == loc[c].instance
           current_version == loc[c].current_version
       IN IF Tool_by_id(instance.base_id) = None
          THEN Return(c, Err("check_update_for_instance", "unknown_tool")
                            @@ [instance |-> instance])
          ELSE \E info \in VersionInfos :
                 LET update_result ==
                         UpdateResultOf(info, current_version, instance.base_id)
                 IN IF info.ok /\ current_version # instance.version
                    THEN Goto(c, "chk_write", loc[c] @@ [result |-> update_result,
                                                         version_info |-> info])
                    ELSE Return(c, [op |-> "check_update_for_instance", ok |-> TRUE,
                                    result |-> update_result, instance |-> instance,
                                    wrote |-> FALSE, version_info |-> info])
    /\ UNCHANGED <<cache, dashboard, store, env, now, nops, nenv>>

\* step 3: the remote check; an unknown tool is an error, a failing remote
\* check is not
chk_Remote(c) ==
    /\ pc[c] = "chk_remote"
    /\ LET instance == loc[c].instance
           current_version == loc[c].current_version
       IN IF Tool_by_id(instance.base_id) = None
          THEN Return(c, Err("check_update_for_instance", "unknown_tool")
                            @@ [instance |-> instance])
          ELSE \E info \in VersionInfos :
                 LET update_result ==
                         UpdateResultOf(info, current_version, instance.base_id)
                 IN IF current_version # instance.version
                    THEN Goto(c, "chk_write", loc[c] @@ [result |-> update_result,
                                                         version_info |-> info])
                    ELSE Return(c, [op |-> "check_update_for_instance", ok |-> TRUE,
                                    result |-> update_result, instance |-> instance,
                                    wrote |-> FALSE, version_info |-> info])
    /\ UNCHANGED <<cache, dashboard, store, env, now, nops, nenv>>

\* step 4, under the lock: the probed version is written back; a failure of
\* the write is logged only
chk_Write(c) ==
    /\ pc[c] = "chk_write"
    /\ store' = db_update_instance(
                    store, WithVersion(loc[c].instance, loc[c].current_version, now))
    /\ Return(c, [op |-> "check_update_for_instance", ok |-> TRUE,
                  result |-> loc[c].result, instance |-> loc[c].instance,
                  wrote |-> TRUE, version_info |-> loc[c].version_info])
    /\ UNCHANGED <<cache, dashboard, env, now, nops, nenv>>

\* step 4 when the store refuses the write: the failure is logged, the
\* result is returned all the same
chk_WriteFails(c) ==
    /\ pc[c] = "chk_write"
    /\ Return(c, [op |-> "check_update_for_instance", ok |-> TRUE,
                  result |-> loc[c].result, instance |-> loc[c].instance,
                  wrote |-> FALSE, version_info |-> loc[c].version_info])
    /\ UNCHANGED <<cache, dashboard, store, env, now, nops, nenv>>

\* the ToolStatus pushed for an instance of the snapshot
VersionStatus(instance, new_version) ==
    [ id |-> instance.base_id, name |-> instance.tool_name,
      installed |-> instance.installed, version |-> new_version ]

\* the loop goes on with the instances left, or the operation returns
rav_Continue(c, todo, statuses) ==
    IF todo = {}
    THEN Return(c, [op |-> "refresh_all_tool_versions", ok |-> TRUE,
                    statuses |-> statuses])
    ELSE Goto(c, "rav_probe", [op |-> "refresh_all_tool_versions",
                               todo |-> todo, statuses |-> statuses])

\* the snapshot read under the lock; the loop runs over its Local instances
rav_Start(c) ==
    /\ StartOp(c)
    /\ rav_Continue(c, { i \in get_all_instances(store) : i.tool_type = "Local" }, << >>)
    /\ UNCHANGED <<cache, dashboard, store, env, now, nenv>>

\* the new version of a turn where a failing command reports no version
NewVersion_DropOnFailure(instance, version_cmd) ==
    IF version_cmd # None /\ Unwrap(version_cmd).success
    THEN ProbedVersion(Unwrap(version_cmd))
    ELSE None

\* the new version of a turn: the parsed output of a succeeding command, the
\* stored version after a failing command or without a path (version_cmd is
\* the command's result, None when no command was run)
NewVersion(instance, version_cmd) ==
    IF version_cmd # None /\ Unwrap(version_cmd).success
    THEN ProbedVersion(Unwrap(version_cmd))
    ELSE instance.version

\* a turn that writes the row back whether or not the version changed
rav_Probe_AlwaysWrite(c) ==
    /\ pc[c] = "rav_probe"
    /\ \E instance \in loc[c].todo :
         \E version_cmd \in IF IsSome(instance.install_path)
                            THEN { Some(r) : r \in VersionCmdResults }
                            ELSE { None } :
           Goto(c, "rav_write", loc[c] @@ [instance |-> instance,
                                           version_cmd |-> version_cmd,
                                           new_version |-> NewVersion(instance, version_cmd)])
    /\ UNCHANGED <<cache, dashboard, store, env, now, nops, nenv>>

\* one turn of the loop up to the comparison: the version command of the
\* instance's path; a failing command and a missing path keep the version
rav_Probe(c) ==
    /\ pc[c] = "rav_probe"
    /\ \E instance \in loc[c].todo :
         \E version_cmd \in IF IsSome(instance.install_path)
                            THEN { Some(r) : r \in VersionCmdResults }
                            ELSE { None } :
           LET new_version == NewVersion(instance, version_cmd)
           IN IF new_version # instance.version
              THEN Goto(c, "rav_write", loc[c] @@ [instance |-> instance,
                                                   version_cmd |-> version_cmd,
                                                   new_version |-> new_version])
              ELSE rav_Continue(c, loc[c].todo \ {instance},
                                Append(loc[c].statuses,
                                       VersionStatus(instance, new_version)))
    /\ UNCHANGED <<cache, dashboard, store, env, now, nops, nenv>>

\* the rest of the turn, under the lock: the changed version is written back
rav_Write(c) ==
    /\ pc[c] = "rav_write"
    /\ store' = db_update_instance(
                    store, WithVersion(loc[c].instance, loc[c].new_version, now))
    /\ rav_Continue(c, loc[c].todo \ {loc[c].instance},
                    Append(loc[c].statuses,
                           VersionStatus(loc[c].instance, loc[c].new_version)))
    /\ UNCHANGED <<cache, dashboard, env, now, nops, nenv>>

\* the rest of the turn when the store refuses the write: the failure is
\* logged, the status is pushed all the same
rav_WriteFails(c) ==
    /\ pc[c] = "rav_write"
    /\ rav_Continue(c, loc[c].todo \ {loc[c].instance},
                    Append(loc[c].statuses,
                           VersionStatus(loc[c].instance, loc[c].new_version)))
    /\ UNCHANGED <<cache, dashboard, store, env, now, nops, nenv>>

(* ------------------------------------------------------------------ *)
(* get_all_grouped, get_local_tool_status                              *)
(* ------------------------------------------------------------------ *)
RECURSIVE SeqOf(_)
\* the rows of a set as a list (the order the store returns them in)
SeqOf(rows) ==
    IF rows = {} THEN << >>
    ELSE LET r == CHOOSE x \in rows : TRUE
         IN <<r>> \o SeqOf(rows \ {r})

RECURSIVE GroupInto(_, _)
\* grouped.entry(instance.base_id).or_default().push(instance), for each instance
GroupInto(grouped, instances) ==
    IF instances = << >> THEN grouped
    ELSE LET instance == Head(instances)
             key == instance.base_id
             old == IF key \in DOMAIN grouped THEN grouped[key] ELSE << >>
         IN GroupInto([k \in DOMAIN grouped \cup {key} |->
                          IF k = key THEN Append(old, instance) ELSE grouped[k]],
                      Tail(instances))

\* a grouping that adds no entry for the tools without instances
SeedKnown_Skip(grouped) == grouped

\* grouped.entry(tool_id).or_default(), for each known tool id
SeedKnown(grouped) ==
    [k \in DOMAIN grouped \cup KnownTools |->
        IF k \in DOMAIN grouped THEN grouped[k] ELSE << >>]

\* the map get_all_grouped returns for the store s
get_all_grouped(s) == SeedKnown(GroupInto(<< >>, SeqOf(get_all_instances(s))))

\* a read: the store is locked for get_all_instances only
gag_Run(c) ==
    /\ pc[c] = "idle"
    /\ Return(c, [op |-> "get_all_grouped", ok |-> TRUE,
                  grouped |-> get_all_grouped(store)])
    /\ UNCHANGED <<cache, dashboard, store, env, now, nops, nenv>>

\* a status lookup that takes the instances of any type
LocalsOf_AnyType(instances) ==
    { instances[i] : i \in 1..Len(instances) }

\* the Local instances of a list
LocalsOf(instances) ==
    { instances[i] : i \in { j \in 1..Len(instances) : instances[j].tool_type = "Local" } }

\* the ToolStatus of one detector's tool: found is the instance
\* instances.iter().find(Local) returned, None when there is none
StatusOf(tool_id, found) ==
    IF IsSome(found)
    THEN [id |-> tool_id, name |-> DisplayName(tool_id),
          installed |-> Unwrap(found).installed, version |-> Unwrap(found).version]
    ELSE [id |-> tool_id, name |-> DisplayName(tool_id),
          installed |-> FALSE, version |-> None]

\* what find may return for each detector's tool: a Local instance of its group
Finds(grouped) ==
    { f \in [all_detectors ->
                {None} \cup { Some(r) : r \in UNION { LocalsOf(grouped[k]) : k \in DOMAIN grouped } }] :
        \A t \in all_detectors :
            IF t \in DOMAIN grouped /\ LocalsOf(grouped[t]) # {}
            THEN IsSome(f[t]) /\ Unwrap(f[t]) \in LocalsOf(grouped[t])
            ELSE f[t] = None }

\* one status per detector, pushed in the detectors' order
get_local_tool_status(grouped, f) ==
    LET ds == SeqOf(all_detectors)
    IN [i \in 1..Len(ds) |-> StatusOf(ds[i], f[ds[i]])]

glts_Run(c) ==
    /\ pc[c] = "idle"
    /\ \E f \in Finds(get_all_grouped(store)) :
         Return(c, [op |-> "get_local_tool_status", ok |-> TRUE,
                    statuses |-> get_local_tool_status(get_all_grouped(store), f)])
    /\ UNCHANGED <<cache, dashboard, store, env, now, nops, nenv>>

(* ------------------------------------------------------------------ *)
(* ToolStatusCache                                                     *)
(* ------------------------------------------------------------------ *)
\* Tool::all(): the descriptors of the known tools, in their order
Tool_all ==
    << Unwrap(Tool_by_id("claude-code")), Unwrap(Tool_by_id("codex")),
       Unwrap(Tool_by_id("gemini-cli")) >>

\* InstallerService::get_installed_version: the version the tool reports
get_installed_version(tool) ==
    IF env[tool.id].installed THEN env[tool.id].version ELSE None

\* detect_single_tool: installed is whether a version was read
cache_detect_single_tool(tool) ==
    LET version == get_installed_version(tool)
    IN [ id |-> tool.id, name |-> tool.name,
         installed |-> IsSome(version), version |-> version ]

\* join_all of detect_all_parallel: the statuses of the completed
\* detections, one per tool, in the order of the tools
JoinedStatuses(found) ==
    [ i \in 1..Len(Tool_all) |-> found[Tool_all[i].id] ]

\* tools.iter().all(|t| cache.contains_key(&t.id))
AllCached(m) == \A i \in 1..Len(Tool_all) : Tool_all[i].id \in DOMAIN m

\* a hit that answers from the first cached tool alone
CachedStatuses_First(m) == << m[Tool_all[1].id] >>

\* tools.iter().filter_map(|t| cache.get(&t.id)).collect()
CachedStatuses(m) == [ i \in 1..Len(Tool_all) |-> m[Tool_all[i].id] ]

\* cache.insert(status.id, status) for every status
InsertAll(m, statuses) ==
    LET ids == { statuses[i].id : i \in 1..Len(statuses) }
    IN [ t \in DOMAIN m \cup ids |->
           IF t \in ids
           THEN statuses[CHOOSE i \in 1..Len(statuses) :
                              /\ statuses[i].id = t
                              /\ \A j \in 1..Len(statuses) : statuses[j].id = t => j <= i]
           ELSE m[t] ]

\* get_all_status, under the read lock: a hit returns the cached statuses;
\* a miss notes how many operations had begun when its detection started,
\* and no tool's detection has completed yet
gas_Start(c) ==
    /\ pc[c] = "idle"
    /\ IF AllCached(cache)
       THEN Return(c, [op |-> "get_all_status", ok |-> TRUE, hit |-> TRUE,
                       statuses |-> CachedStatuses(cache)])
       ELSE Goto(c, "gas_detect", [op |-> "get_all_status", started |-> nops,
                                   found |-> << >>])
    /\ UNCHANGED <<cache, dashboard, store, env, now, nops, nenv>>

\* the miss: the detection of one tool completes with what its probe finds
\* now; the one that completes last ends the join
gas_Detect(c, tool) ==
    /\ pc[c] = "gas_detect"
    /\ tool.id \notin DOMAIN loc[c].found
    /\ LET found == [ t \in DOMAIN loc[c].found \cup {tool.id} |->
                        IF t = tool.id THEN cache_detect_single_tool(tool)
                        ELSE loc[c].found[t] ]
       IN IF AllCached(found)
          THEN Goto(c, "gas_insert",
                    [op |-> "get_all_status", started |-> loc[c].started,
                     statuses |-> JoinedStatuses(found)])
          ELSE Goto(c, "gas_detect", [loc[c] EXCEPT !.found = found])
    /\ UNCHANGED <<cache, dashboard, store, env, now, nops, nenv>>

\* under the write lock: every detected status is cached, then returned
gas_Insert(c) ==
    /\ pc[c] = "gas_insert"
    /\ cache' = InsertAll(cache, loc[c].statuses)
    /\ Return(c, [op |-> "get_all_status", ok |-> TRUE, hit |-> FALSE,
                  statuses |-> loc[c].statuses])
    /\ UNCHANGED <<dashboard, store, env, now, nops, nenv>>

\* clear, under the write lock; seq is its place among the operations begun
cache_clear(c) ==
    /\ StartOp(c)
    /\ cache' = NoCache
    /\ Return(c, [op |-> "clear", ok |-> TRUE, seq |-> nops + 1])
    /\ UNCHANGED <<dashboard, store, env, now, nenv>>

\* clear_tool, under the write lock
cache_clear_tool(c, tool_id) ==
    /\ StartOp(c)
    /\ cache' = [ t \in DOMAIN cache \ {tool_id} |-> cache[t] ]
    /\ Return(c, [op |-> "clear_tool", ok |-> TRUE, tool_id |-> tool_id])
    /\ UNCHANGED <<dashboard, store, env, now, nenv>>

\* the command that called update_instance, after the call has returned:
\* it invalidates the status cache with clear(), as the cache's description
\* and the comment of clear() ask of the callers; nenv at that moment is
\* noted with the call's result
command_invalidate(c) ==
    /\ pc[c] = "idle"
    /\ ret[c].op = "update_instance"
    /\ "invalidated_at" \notin DOMAIN ret[c]
    /\ cache' = NoCache
    /\ ret' = [ret EXCEPT ![c] = ret[c] @@ [invalidated_at |-> nenv]]
    /\ UNCHANGED <<dashboard, store, env, now, pc, loc, nops, nenv>>

(* ------------------------------------------------------------------ *)
(* DashboardManager                                                    *)
(* ------------------------------------------------------------------ *)
\* the tools a selection is set for, the instance ids and the provider ids
\* chosen here
SelectionTools == {"claude-code", "codex"}
SelectionIds == {"codex-local", "codex-wsl-Ubuntu"}
ProviderIds == {"duckcoding"}

\* DashboardStore::default at clock t
DashboardStore_default(t) ==
    [ version |-> 1, tool_instance_selections |-> << >>,
      selected_provider_id |-> None, updated_at |-> t ]

\* serde_json::to_value: the JSON object of a store (an absent provider id
\* is null, a present one a string)
to_value(st) ==
    [ version |-> st.version,
      tool_instance_selections |-> st.tool_instance_selections,
      selected_provider_id |->
          IF st.selected_provider_id = None THEN [type |-> "null"]
          ELSE [type |-> "string", value |-> Unwrap(st.selected_provider_id)],
      updated_at |-> st.updated_at ]

\* serde_json::from_value
from_value(json) ==
    [ version |-> json.version,
      tool_instance_selections |-> json.tool_instance_selections,
      selected_provider_id |->
          IF json.selected_provider_id.type = "null" THEN None
          ELSE Some(json.selected_provider_id.value),
      updated_at |-> json.updated_at ]

\* HashMap::get(tool_id).cloned()
MapGet(m, k) == IF k \in DOMAIN m THEN Some(m[k]) ELSE None

\* HashMap::insert(tool_id, instance_id)
MapInsert(m, k, v) == [ x \in DOMAIN m \cup {k} |-> IF x = k THEN v ELSE m[x] ]

\* a set_tool_instance_selection that forgets the selected provider
WithSelection_NoProvider(st, tool_id, instance_id, t) ==
    [ st EXCEPT !.tool_instance_selections = MapInsert(@, tool_id, instance_id),
                !.selected_provider_id = None,
                !.updated_at = t ]

\* set_tool_instance_selection: the loaded store with the selection inserted
WithSelection(st, tool_id, instance_id, t) ==
    [ st EXCEPT !.tool_instance_selections = MapInsert(@, tool_id, instance_id),
                !.updated_at = t ]

\* set_selected_provider_id: the loaded store with the provider id replaced
WithProvider(st, provider_id, t) ==
    [ st EXCEPT !.selected_provider_id = provider_id, !.updated_at = t ]

\* what a caller does with the store st that its load_store returned: a
\* getter returns the value, a setter holds its copy and goes on to change
\* it
dm_Loaded(c, l, st) ==
    CASE l.op = "get_tool_instance_selection" ->
           Return(c, [op |-> l.op, ok |-> TRUE, tool_id |-> l.tool_id,
                      value |-> MapGet(st.tool_instance_selections, l.tool_id)])
      [] l.op = "get_selected_provider_id" ->
           Return(c, [op |-> l.op, ok |-> TRUE,
                      value |-> st.selected_provider_id])
      [] l.op = "set_tool_instance_selection" ->
           Goto(c, "dm_change",
                [op |-> l.op, tool_id |-> l.tool_id,
                 instance_id |-> l.instance_id, loaded |-> st])
      [] OTHER ->
           Goto(c, "dm_change",
                [op |-> l.op, provider_id |-> l.provider_id, loaded |-> st])

\* a setter after load_store has returned: the value is set in the caller's
\* copy and updated_at is stamped with the clock as it reads now
dm_Change(c) ==
    /\ pc[c] = "dm_change"
    /\ Goto(c, "dm_save",
            loc[c] @@ [store |->
                IF loc[c].op = "set_tool_instance_selection"
                THEN WithSelection(loc[c].loaded, loc[c].tool_id,
                                   loc[c].instance_id, now)
                ELSE WithProvider(loc[c].loaded, loc[c].provider_id, now)])
    /\ UNCHANGED <<cache, dashboard, store, env, now, nops, nenv>>

\* the error of a failing load_store, as the operation returns it
dm_LoadError(c, l) ==
    IF l.op = "get_tool_instance_selection"
    THEN Return(c, Err(l.op, "load") @@ [tool_id |-> l.tool_id])
    ELSE Return(c, Err(l.op, "load"))

\* load_store, the check of the cache under its mutex: a cached store is
\* the answer; else the mutex is let go and the file is looked at
dm_Begin(c, l) ==
    /\ IF IsSome(dashboard.cache)
       THEN dm_Loaded(c, l, Unwrap(dashboard.cache))
       ELSE Goto(c, "dm_exists", l)
    /\ UNCHANGED <<cache, dashboard, store, env, now, nenv>>

\* get_tool_instance_selection
dm_get_selection(c, tool_id) ==
    /\ pc[c] = "idle"
    /\ dm_Begin(c, [op |-> "get_tool_instance_selection", tool_id |-> tool_id])
    /\ UNCHANGED nops

\* get_selected_provider_id
dm_get_provider(c) ==
    /\ pc[c] = "idle"
    /\ dm_Begin(c, [op |-> "get_selected_provider_id"])
    /\ UNCHANGED nops

\* set_tool_instance_selection
dm_set_selection(c, tool_id, instance_id) ==
    /\ StartOp(c)
    /\ dm_Begin(c, [op |-> "set_tool_instance_selection", tool_id |-> tool_id,
                    instance_id |-> instance_id])

\* set_selected_provider_id
dm_set_provider(c, provider_id) ==
    /\ StartOp(c)
    /\ dm_Begin(c, [op |-> "set_selected_provider_id",
                    provider_id |-> provider_id])

\* load_store, store_path.exists(): without a file the default store will
\* be made and saved, with one the file will be read
dm_Exists(c) ==
    /\ pc[c] = "dm_exists"
    /\ IF dashboard.file = None
       THEN Goto(c, "dm_default", loc[c])
       ELSE Goto(c, "dm_read", loc[c])
    /\ UNCHANGED <<cache, dashboard, store, env, now, nops, nenv>>

\* load_store, DashboardStore::default(): the default store, stamped with
\* the clock as it reads now
dm_Default(c) ==
    /\ pc[c] = "dm_default"
    /\ Goto(c, "dm_default_write",
            loc[c] @@ [default |-> DashboardStore_default(now)])
    /\ UNCHANGED <<cache, dashboard, store, env, now, nops, nenv>>

\* load_store, save_store of the default store, the write of the file: a
\* failing one is ignored and the default store is the answer
dm_DefaultWrite(c) ==
    /\ pc[c] = "dm_default_write"
    /\ \/ /\ dashboard' = [dashboard EXCEPT !.file = Some(to_value(loc[c].default))]
          /\ Goto(c, "dm_default_cache", loc[c])
       \/ /\ dashboard' = dashboard
          /\ dm_Loaded(c, loc[c], loc[c].default)
    /\ UNCHANGED <<cache, store, env, now, nops, nenv>>

\* load_store, save_store of the default store, the cache set under its
\* mutex; the default store is the answer
dm_DefaultCache(c) ==
    /\ pc[c] = "dm_default_cache"
    /\ dashboard' = [dashboard EXCEPT !.cache = Some(loc[c].default)]
    /\ dm_Loaded(c, loc[c], loc[c].default)
    /\ UNCHANGED <<cache, store, env, now, nops, nenv>>

\* load_store, the file is read and deserialized; a failing read is the
\* operation's error
dm_Read(c) ==
    /\ pc[c] = "dm_read"
    /\ \/ Goto(c, "dm_fill", loc[c] @@ [read |-> from_value(Unwrap(dashboard.file))])
       \/ dm_LoadError(c, loc[c])
    /\ UNCHANGED <<cache, dashboard, store, env, now, nops, nenv>>

\* load_store, the cache is set under its mutex to the store that was read,
\* which is the answer
dm_Fill(c) ==
    /\ pc[c] = "dm_fill"
    /\ dashboard' = [dashboard EXCEPT !.cache = Some(loc[c].read)]
    /\ dm_Loaded(c, loc[c], loc[c].read)
    /\ UNCHANGED <<cache, store, env, now, nops, nenv>>

\* save_store of a setter, the write of the file; a failing write is the
\* operation's error and leaves the cache
dm_Save(c) ==
    /\ pc[c] = "dm_save"
    /\ \/ /\ dashboard' = [dashboard EXCEPT !.file = Some(to_value(loc[c].store))]
          /\ Goto(c, "dm_save_cache", loc[c])
       \/ /\ dashboard' = dashboard
          /\ Return(c, Err(loc[c].op, "save"))
    /\ UNCHANGED <<cache, store, env, now, nops, nenv>>

\* save_store of a setter, the cache set under its mutex, and the return
dm_SaveCache(c) ==
    /\ pc[c] = "dm_save_cache"
    /\ dashboard' = [dashboard EXCEPT !.cache = Some(loc[c].store)]
    /\ Return(c, loc[c] @@ [ok |-> TRUE])
    /\ UNCHANGED <<cache, store, env, now, nops, nenv>>

\* clear_cache
dm_clear_cache(c) ==
    /\ StartOp(c)
    /\ dashboard' = [dashboard EXCEPT !.cache = None]
    /\ Return(c, [op |-> "clear_cache", ok |-> TRUE])
    /\ UNCHANGED <<cache, store, env, now, nenv>>

\* the steps of load_store and save_store after the check of the cache
DashboardSteps(c) ==
    \/ dm_Exists(c) \/ dm_Default(c) \/ dm_DefaultWrite(c) \/ dm_DefaultCache(c)
    \/ dm_Read(c) \/ dm_Fill(c)
    \/ dm_Change(c) \/ dm_Save(c) \/ dm_SaveCache(c)

\* the operations of the dashboard manager
DashboardOps(c) ==
    \/ \E t \in KnownTools : dm_get_selection(c, t)
    \/ dm_get_provider(c)
    \/ \E t \in SelectionTools, i \in SelectionIds : dm_set_selection(c, t, i)
    \/ \E v \in {None} \cup {Some(x) : x \in ProviderIds} : dm_set_provider(c, v)
    \/ DashboardSteps(c)
    \/ dm_clear_cache(c)

(* ------------------------------------------------------------------ *)
(* The store lock: what each operation does between its awaits          *)
(* ------------------------------------------------------------------ *)
\* a lock scope (self.db.lock().await, store calls, drop or end of scope)
\* and an awaited probe (a detector, a command, the installer, the version
\* service)
Locked == <<"lock", "store", "unlock">>
Probed == <<"probe">>

\* the most turns of a loop here: the Local instances refresh_all_tool_versions
\* runs over, the executables scan_tool_candidates found
MaxLoop == 3

\* the turns of the refresh_all_tool_versions loop: no probe (no path), a
\* probe, a probe and a write-back
LoopTurns == { << >>, Probed, Probed \o Locked }
RECURSIVE Loops(_)
Loops(n) ==
    IF n = 0 THEN { << >> }
    ELSE Loops(n - 1) \cup { a \o b : a \in Loops(n - 1), b \in LoopTurns }

\* the paths of detect_and_persist_single_tool
SingleToolPaths ==
    { << >>,                                       \* no detector
      Locked,                                      \* the snapshot fails
      Locked \o Probed \o Locked,                  \* path conflict, or a failing upsert
      Locked \o Probed \o Locked \o Locked,        \* the check, then the save
      Locked \o Probed \o <<"lock", "unlock">> }   \* not installed: nothing written

\* the operations of the registry
LockOps ==
    { "has_local_tools_in_db", "get_all_grouped", "detect_and_persist_local_tools",
      "detect_and_persist_single_tool", "refresh_local_tools", "add_wsl_instance",
      "add_ssh_instance", "delete_instance", "refresh_all", "detect_install_methods",
      "get_local_tool_status", "refresh_and_get_local_status", "update_instance",
      "check_update_for_instance", "refresh_all_tool_versions", "scan_tool_candidates",
      "validate_tool_path", "add_tool_instance", "detect_single_tool_with_cache" }

\* an add_ssh_instance whose early return on an existing id keeps the lock
LockPaths_KeepOnError(op) ==
    IF op = "add_ssh_instance"
    THEN { << >>, <<"lock", "store">>, Locked }
    ELSE { Locked }

\* a detect_and_persist_single_tool whose first lock scope has no drop
LockPaths_NoDrop(op) ==
    IF op = "detect_and_persist_single_tool"
    THEN { <<"lock", "store">> \o Probed \o <<"store", "unlock">> \o Locked }
    ELSE { Locked }

\* the paths through operation op, as its lock scopes and awaited probes in
\* their order: detect_install_methods awaits one probe for each detector,
\* scan_tool_candidates one command for each executable it found, and a
\* forced detect_single_tool_with_cache has no scope of its own before
\* detect_and_persist_single_tool
LockPaths(op) ==
    CASE op = "has_local_tools_in_db" -> { Locked }
      [] op = "get_all_grouped" -> { Locked }
      [] op = "detect_and_persist_local_tools" -> { Probed \o Locked }
      [] op = "detect_and_persist_single_tool" -> SingleToolPaths
      [] op = "refresh_local_tools" -> { Probed \o Locked }
      [] op = "add_wsl_instance" -> { << >>, Probed, Probed \o Locked }
      [] op = "add_ssh_instance" -> { << >>, Locked }
      [] op = "delete_instance" -> { Locked }
      [] op = "refresh_all" -> { Probed \o Locked, Probed \o Locked \o Locked }
      [] op = "detect_install_methods" ->
           { [ i \in 1..Cardinality(all_detectors) |-> "probe" ] }
      [] op = "get_local_tool_status" -> { Locked }
      [] op = "refresh_and_get_local_status" -> { Probed \o Locked }
      [] op = "update_instance" ->
           { Locked, Locked \o Probed, Locked \o Probed \o Locked }
      [] op = "check_update_for_instance" ->
           { Locked, Locked \o Probed, Locked \o Probed \o Probed,
             Locked \o Probed \o Probed \o Locked }
      [] op = "refresh_all_tool_versions" -> { Locked \o l : l \in Loops(MaxLoop) }
      [] op = "scan_tool_candidates" ->
           { [ i \in 1..n |-> "probe" ] : n \in 0..MaxLoop }
      [] op = "validate_tool_path" -> { << >>, Probed }
      [] op = "add_tool_instance" -> { << >>, Probed, Probed \o Locked }
      [] op = "detect_single_tool_with_cache" ->
           { Locked } \cup { Locked \o x : x \in SingleToolPaths }
               \cup SingleToolPaths

\* the callers that hold the store lock
Holders == { c \in Callers : pc[c] = "lk_run" /\ loc[c].held }

\* what caller c does next on its path
NextEvent(c) == Head(loc[c].rest)

\* caller c starts operation op and will take one of its paths
lk_Start(c, op) ==
    /\ StartOp(c)
    /\ \E path \in LockPaths(op) :
         IF path = << >>
         THEN Return(c, [op |-> op, ok |-> TRUE, last |-> "none"])
         ELSE Goto(c, "lk_run", [op |-> op, rest |-> path, held |-> FALSE])
    /\ UNCHANGED <<cache, dashboard, store, env, now, nenv>>

\* caller c takes the next event of its path (rest is what of the path is
\* still to come); the lock is taken only when nobody holds it; the
\* operation returns after the last event
lk_Step(c) ==
    /\ pc[c] = "lk_run"
    /\ NextEvent(c) = "lock" => Holders = {}
    /\ LET e == NextEvent(c)
           held == IF e = "lock" THEN TRUE
                   ELSE IF e = "unlock" THEN FALSE
                   ELSE loc[c].held
       IN IF Len(loc[c].rest) = 1
          THEN Return(c, [op |-> loc[c].op, ok |-> TRUE, last |-> e])
          ELSE Goto(c, "lk_run", [loc[c] EXCEPT !.rest = Tail(@), !.held = held])
    /\ UNCHANGED <<cache, dashboard, store, env, now, nops, nenv>>

(* ------------------------------------------------------------------ *)
(* Specification                                                       *)
(* ------------------------------------------------------------------ *)
Init ==
    /\ store = {}
    /\ env = [t \in KnownTools |-> NotInstalled]
    /\ now = 0
    /\ pc = [c \in Callers |-> "idle"]
    /\ loc = [c \in Callers |-> NoLoc]
    /\ ret = [c \in Callers |-> NoRet]
    /\ nops = 0
    /\ nenv = 0
    /\ cache = NoCache
    /\ dashboard = NoDashboard

\* the environment changes and the clock advances
Environment ==
    \/ Tick
    \/ \E t \in KnownTools, p \in {None} \cup {Some(x) : x \in Paths} :
          EnvInstall(t, p, FirstVersion)
    \/ \E t \in KnownTools, v \in {None} \cup {Some(x) : x \in Versions} :
          EnvVersion(t, v)
    \/ \E t \in KnownTools, m \in EnvMethods : EnvMethod(t, m)
    \/ \E t \in KnownTools : EnvUninstall(t)

\* the automatic detection of the Local instances
DetectOps(c) ==
    \/ dpl_Start(c)
    \/ \E t \in all_detectors : fan_Detect(c, t)
    \/ fan_Join(c)
    \/ dpl_Persist(c)
    \/ \E tool_id \in ToolIds : dps_Start(c, tool_id)
    \/ dps_Detect(c)
    \/ dps_Check(c)
    \/ dps_Save(c)
    \/ rlt_Start(c)
    \/ rlt_Reconcile(c)

\* the manual registration of a Local instance
ManualOps(c) ==
    \/ \E tool_id \in AddToolIds, path \in Paths, m \in AddMethods,
          ip \in {None, Some(NpmPath)} : ati_Start(c, tool_id, path, m, ip)
    \/ \E f \in PathFacts, g \in InstallerFacts : ati_Validate(c, f, g)
    \/ ati_Save(c)

\* the user's WSL and SSH instances
UserOps(c) ==
    \/ \E base_id \in ToolIds, d \in Distros : wsl_Start(c, base_id, d)
    \/ wsl_Probe(c)
    \/ wsl_Save(c)
    \/ \E base_id \in ToolIds, cfg \in SSHConfigs : ssh_Start(c, base_id, cfg)
    \/ ssh_Save(c)
    \/ \E id \in DeleteIds : del_Run(c, id)

\* the reads
ReadOps(c) ==
    \/ gag_Run(c)
    \/ glts_Run(c)

\* one caller, automatic detection and the reads
Next == Environment \/ DetectOps(1) \/ ReadOps(1)
Spec == Init /\ [][Next]_vars

\* one caller, manual registration (of claude-code and of a tool no detector
\* knows) beside the single-tool detection of codex
NextManual ==
    \/ Tick
    \/ \E p \in Paths : EnvInstall("codex", Some(p), FirstVersion)
    \/ ManualOps(1)
    \/ \E tool_id \in {"codex", UnknownTool} : dps_Start(1, tool_id)
    \/ dps_Detect(1) \/ dps_Check(1) \/ dps_Save(1)
SpecManual == Init /\ [][NextManual]_vars

\* one caller, the user's instances beside single-tool detection; codex is
\* found at either path, the other tools at /p1
NextUser ==
    \/ Tick
    \/ \E t \in KnownTools, p \in Paths :
          (t = "codex" \/ p = "/p1") /\ EnvInstall(t, Some(p), FirstVersion)
    \/ \E t \in KnownTools : EnvUninstall(t)
    \/ UserOps(1)
    \/ \E tool_id \in KnownTools : dps_Start(1, tool_id)
    \/ dps_Detect(1) \/ dps_Check(1) \/ dps_Save(1)
    \/ ReadOps(1)
SpecUser == Init /\ [][NextUser]_vars

\* one caller, repeated detect_and_persist_local_tools and the grouped read
NextBatch ==
    \/ Environment
    \/ dpl_Start(1) \/ (\E t \in all_detectors : fan_Detect(1, t)) \/ fan_Join(1) \/ dpl_Persist(1)
    \/ gag_Run(1)
SpecBatch == Init /\ [][NextBatch]_vars

\* two callers of detect_and_persist_local_tools, each call started against
\* an empty store, while the clock runs and codex comes and goes
NextBatch2 ==
    \/ Tick
    \/ \E p \in Paths : EnvInstall("codex", Some(p), FirstVersion)
    \/ EnvUninstall("codex")
    \/ \E c \in Callers :
          \/ store = {} /\ dpl_Start(c)
          \/ \E t \in all_detectors : fan_Detect(c, t)
          \/ fan_Join(c)
          \/ dpl_Persist(c)
SpecBatch2 == Init /\ [][NextBatch2]_vars

\* one caller, refresh_local_tools and the grouped read over stores that hold
\* detected rows (tools found at /p1), manually added Local rows at either
\* path and SSH rows of codex
NextRefresh ==
    \/ Tick
    \/ \E t \in KnownTools : EnvInstall(t, Some("/p1"), FirstVersion)
    \/ \E t \in KnownTools : EnvUninstall(t)
    \/ rlt_Start(1) \/ (\E t \in all_detectors : fan_Detect(1, t)) \/ fan_Join(1) \/ rlt_Reconcile(1)
    \/ \E tool_id \in {"codex", UnknownTool}, path \in Paths :
          ati_Start(1, tool_id, path, "Other", None)
    \/ \E f \in PathFacts, g \in InstallerFacts : ati_Validate(1, f, g)
    \/ ati_Save(1)
    \/ \E cfg \in SSHConfigs : ssh_Start(1, "codex", cfg)
    \/ ssh_Save(1)
    \/ gag_Run(1)
SpecRefresh == Init /\ [][NextRefresh]_vars

\* rows that earlier runs of the program leave in the store: a detected codex,
\* a claude-code that the batch detection did not find, and the user's WSL
\* and SSH instances of codex
SeedLocal ==
    detect_single_tool_by_detector(
        "codex", [installed |-> TRUE, version |-> Some(FirstVersion),
                  path |-> Some("/p1"), method |-> Some("Other")],
        [success |-> FALSE, stdout |-> << >>], 0)
SeedNoPath ==
    detect_single_tool_by_detector(
        "claude-code", NotInstalled, [success |-> FALSE, stdout |-> << >>], 0)
SeedWSL ==
    create_wsl_instance("codex", DisplayName("codex"), "Ubuntu", TRUE,
                        Some(FirstVersion), Some("/p1"), 0)
SeedSSH ==
    create_ssh_instance("codex", DisplayName("codex"), "hostA", FALSE, None, None, 0)
SeedStores ==
    { {SeedLocal}, {SeedLocal, SeedNoPath}, {SeedWSL, SeedSSH},
      {SeedLocal, SeedNoPath, SeedWSL, SeedSSH} }

\* the program starts on a store that earlier runs have filled
InitSeeded ==
    /\ store \in SeedStores
    /\ env = [t \in KnownTools |-> NotInstalled]
    /\ now = 0
    /\ pc = [c \in Callers |-> "idle"]
    /\ loc = [c \in Callers |-> NoLoc]
    /\ ret = [c \in Callers |-> NoRet]
    /\ nops = 0
    /\ nenv = 0
    /\ cache = NoCache
    /\ dashboard = NoDashboard

\* the operations that write a version back
VersionOps(c) ==
    \/ \E id \in DeleteIds, force \in BOOLEAN : upd_Start(c, id, force)
    \/ upd_Install(c)
    \/ upd_Write(c)
    \/ \E id \in DeleteIds : chk_Start(c, id)
    \/ chk_Version(c)
    \/ chk_Remote(c)
    \/ chk_Write(c)
    \/ rav_Start(c)
    \/ rav_Probe(c)
    \/ rav_Write(c)

\* one caller, the version operations on a filled store
NextVersions ==
    \/ Tick
    \/ VersionOps(1)
SpecVersions == InitSeeded /\ [][NextVersions]_vars

\* the program starts on the store that holds Local, WSL and SSH rows
InitPersist ==
    /\ InitSeeded
    /\ store = {SeedLocal, SeedNoPath, SeedWSL, SeedSSH}

\* one caller, every operation that writes the store; delete_instance of the
\* WSL row, the SSH row and an id that is not stored
NextPersist ==
    \/ Tick
    \/ EnvInstall("codex", Some("/p2"), FirstVersion)
    \/ VersionOps(1)
    \/ dpl_Start(1) \/ (\E t \in all_detectors : fan_Detect(1, t)) \/ fan_Join(1) \/ dpl_Persist(1)
    \/ dps_Start(1, "codex") \/ dps_Detect(1) \/ dps_Check(1) \/ dps_Save(1)
    \/ rlt_Start(1) \/ rlt_Reconcile(1)
    \/ \E id \in {SeedWSL.instance_id, SeedSSH.instance_id, AbsentId} : del_Run(1, id)
SpecPersist == InitPersist /\ [][NextPersist]_vars

\* the status cache beside update_instance: caller 1 updates, its command
\* invalidating the cache after each update, and clears; caller 2 reads the
\* statuses
NextCache ==
    \/ EnvInstall("codex", Some("/p1"), FirstVersion)
    \/ \E v \in Versions : EnvVersion("codex", Some(v))
    \/ EnvUninstall("codex")
    \/ gas_Start(2) \/ gas_Insert(2)
    \/ \E i \in 1..Len(Tool_all) : gas_Detect(2, Tool_all[i])
    \/ cache_clear(1)
    \/ \E t \in {"codex", UnknownTool} : cache_clear_tool(1, t)
    \/ upd_Start(1, SeedLocal.instance_id, FALSE) \/ upd_Install(1) \/ upd_Write(1)
    \/ command_invalidate(1)
SpecCache == InitSeeded /\ [][NextCache]_vars

\* one caller of the dashboard manager
NextDashboard ==
    \/ Tick
    \/ DashboardOps(1)
SpecDashboard == Init /\ [][NextDashboard]_vars

\* two callers of detect_and_persist_single_tool for codex
NextSingle2 ==
    \/ Tick
    \/ \E p \in Paths : EnvInstall("codex", Some(p), FirstVersion)
    \/ \E m \in EnvMethods : EnvMethod("codex", m)
    \/ \E c \in Callers :
          dps_Start(c, "codex") \/ dps_Detect(c) \/ dps_Check(c) \/ dps_Save(c)
SpecSingle2 == Init /\ [][NextSingle2]_vars

\* two callers of validate_tool_path, on a filled store
NextValidate ==
    \E c \in Callers :
        \/ \E path \in Paths, exists \in BOOLEAN, is_file \in BOOLEAN :
              vtp_Start(c, path, exists, is_file)
        \/ vtp_Exec(c)
SpecValidate == InitSeeded /\ [][NextValidate]_vars

\* one caller, the batch operations with their detections one at a time and
\* a store whose upserts may fail
NextFan ==
    \/ Tick
    \/ EnvInstall("codex", Some("/p1"), FirstVersion)
    \/ EnvUninstall("codex")
    \/ dpl_Start(1) \/ rlt_Start(1)
    \/ \E t \in all_detectors : fan_Detect(1, t)
    \/ fan_Join(1)
    \/ \E failed \in SUBSET all_detectors : dpl_PersistSome(1, failed)
    \/ rlt_Reconcile(1)
SpecFan == Init /\ [][NextFan]_vars

\* a row of an earlier run that the version checks treat differently: a
\* detected gemini-cli that no path lookup found
SeedPathless ==
    detect_single_tool_by_detector(
        "gemini-cli", [installed |-> TRUE, version |-> Some(FirstVersion),
                       path |-> None, method |-> None],
        [success |-> FALSE, stdout |-> << >>], 0)
CheckStores ==
    { {SeedLocal, SeedPathless}, {SeedLocal, SeedNoPath, SeedSSH}, {SeedPathless} }

InitCheck ==
    /\ store \in CheckStores
    /\ env = [t \in KnownTools |-> NotInstalled]
    /\ now = 0
    /\ pc = [c \in Callers |-> "idle"]
    /\ loc = [c \in Callers |-> NoLoc]
    /\ ret = [c \in Callers |-> NoRet]
    /\ nops = 0
    /\ nenv = 0
    /\ cache = NoCache
    /\ dashboard = NoDashboard

\* one caller, the version checks with a store that may refuse a write, and
\* the user adding a tool under an id that no Tool descriptor knows
NextCheck ==
    \/ Tick
    \/ ati_Start(1, UnknownTool, "/p2", "Other", None)
    \/ \E f \in PathFacts, g \in InstallerFacts : ati_Validate(1, f, g)
    \/ ati_Save(1)
    \/ \E id \in DeleteIds : chk_Start(1, id)
    \/ chk_Version(1)
    \/ chk_Remote(1)
    \/ chk_Write(1)
    \/ chk_WriteFails(1)
    \/ rav_Start(1)
    \/ rav_Probe(1)
    \/ rav_Write(1)
    \/ rav_WriteFails(1)
SpecCheck == InitCheck /\ [][NextCheck]_vars

\* one caller, the single-tool detection behind the store's answer, on a
\* filled store, with codex installed and upgraded meanwhile
NextCached ==
    \/ Tick
    \/ \E v \in Versions : EnvInstall("codex", Some("/p1"), v)
    \/ \E tool_id \in {"codex", "claude-code"}, force \in BOOLEAN :
          dswc_Start(1, tool_id, force)
    \/ dswc_Delegate(1)
    \/ dps_Detect(1)
    \/ dps_Check(1)
    \/ dps_Save(1)
SpecCached == InitSeeded /\ [][NextCached]_vars

\* two callers adding SSH instances
NextSsh2 ==
    \/ Tick
    \/ \E c \in Callers :
          \/ \E base_id \in ToolIds, cfg \in SSHConfigs : ssh_Start(c, base_id, cfg)
          \/ ssh_Save(c)
SpecSsh2 == Init /\ [][NextSsh2]_vars

\* one caller adding WSL instances
NextWsl ==
    \/ Tick
    \/ \E base_id \in ToolIds, d \in Distros : wsl_Start(1, base_id, d)
    \/ wsl_Probe(1)
    \/ wsl_Save(1)
SpecWsl == Init /\ [][NextWsl]_vars

\* one caller, single detections over everything the probes may answer
NextDetect ==
    \/ Tick
    \/ \E tool_id \in KnownTools, d \in DetectorReports, w \in WhichResults :
          detect_Run(1, tool_id, d, w)
SpecDetect == Init /\ [][NextDetect]_vars

\* a row of an earlier run: a claude-code that the user added by hand at /p2
SeedManual ==
    ManualInstance("claude-code", "/p2", "Other", None, FirstVersion, 0)

\* the program starts on a store that holds the hand-added claude-code, with
\* or without a detected codex and its WSL instance
InitConflict ==
    /\ store \in { {SeedManual}, {SeedLocal, SeedManual},
                    {SeedLocal, SeedManual, SeedWSL} }
    /\ env = [t \in KnownTools |-> NotInstalled]
    /\ now = 0
    /\ pc = [c \in Callers |-> "idle"]
    /\ loc = [c \in Callers |-> NoLoc]
    /\ ret = [c \in Callers |-> NoRet]
    /\ nops = 0
    /\ nenv = 0
    /\ cache = NoCache
    /\ dashboard = NoDashboard

\* one caller, the single-tool detection of codex, found at either path
NextConflict ==
    \/ Tick
    \/ \E p \in Paths : EnvInstall("codex", Some(p), FirstVersion)
    \/ \E tool_id \in {"codex", UnknownTool} : dps_Start(1, tool_id)
    \/ dps_Detect(1)
    \/ dps_Check(1)
    \/ dps_Save(1)
SpecConflict == InitConflict /\ [][NextConflict]_vars

\* two callers adding tools by hand
NextManual2 ==
    \/ Tick
    \/ \E c \in Callers :
          \/ \E tool_id \in AddToolIds, path \in Paths :
                ati_Start(c, tool_id, path, "Other", None)
          \/ \E f \in PathFacts, g \in InstallerFacts : ati_Validate(c, f, g)
          \/ ati_Save(c)
SpecManual2 == Init /\ [][NextManual2]_vars

\* a row of an earlier run: a codex detected at /p1 when it was at version 0
SeedOld ==
    detect_single_tool_by_detector(
        "codex", [installed |-> TRUE, version |-> Some(<<"0">>),
                  path |-> Some("/p1"), method |-> Some("Other")],
        [success |-> FALSE, stdout |-> << >>], 0)

InitWriteBack ==
    /\ store = {SeedOld}
    /\ env = [t \in KnownTools |-> NotInstalled]
    /\ now = 0
    /\ pc = [c \in Callers |-> "idle"]
    /\ loc = [c \in Callers |-> NoLoc]
    /\ ret = [c \in Callers |-> NoRet]
    /\ nops = 0
    /\ nenv = 0
    /\ cache = NoCache
    /\ dashboard = NoDashboard

\* two callers, the version write-backs beside each other and beside a new
\* detection of codex, now found at /p2
NextWriteBack ==
    \/ Tick
    \/ EnvInstall("codex", Some("/p2"), FirstVersion)
    \/ \E c \in Callers :
          \/ \E force \in BOOLEAN : upd_Start(c, SeedOld.instance_id, force)
          \/ upd_Install(c)
          \/ upd_Write(c)
          \/ chk_Start(c, SeedOld.instance_id)
          \/ chk_Version(c)
          \/ chk_Remote(c)
          \/ chk_Write(c)
          \/ rav_Start(c)
          \/ rav_Probe(c)
          \/ rav_Write(c)
          \/ dps_Start(c, "codex")
          \/ dps_Detect(c)
          \/ dps_Check(c)
          \/ dps_Save(c)
SpecWriteBack == InitWriteBack /\ [][NextWriteBack]_vars

\* two callers of the status cache: either reads the statuses or clears,
\* while codex is installed, upgraded and removed
NextClear ==
    \/ EnvInstall("codex", Some("/p1"), FirstVersion)
    \/ \E v \in Versions : EnvVersion("codex", Some(v))
    \/ EnvUninstall("codex")
    \/ \E c \in Callers :
          \/ gas_Start(c) \/ gas_Insert(c) \/ cache_clear(c)
          \/ \E i \in 1..Len(Tool_all) : gas_Detect(c, Tool_all[i])
SpecClear == InitWriteBack /\ [][NextClear]_vars

\* two callers of the dashboard manager's setters
NextDashboard2 ==
    \/ Tick
    \/ \E c \in Callers :
          \/ \E t \in SelectionTools, i \in SelectionIds : dm_set_selection(c, t, i)
          \/ \E v \in {None} \cup {Some(x) : x \in ProviderIds} : dm_set_provider(c, v)
          \/ DashboardSteps(c)
SpecDashboard2 == Init /\ [][NextDashboard2]_vars

\* two callers of refresh_all_tool_versions over the one row of codex
NextIdem ==
    \/ Tick
    \/ \E c \in Callers :
          rav_Start(c) \/ rav_Probe(c) \/ rav_Write(c) \/ rav_WriteFails(c)
SpecIdem == InitWriteBack /\ [][NextIdem]_vars

\* two callers, every operation as its lock scopes and probes
NextLock ==
    \E c \in Callers :
        \/ \E op \in LockOps : lk_Start(c, op)
        \/ lk_Step(c)
SpecLock == Init /\ [][NextLock]_vars

\* one operation for each different set of paths (the operations left out
\* have the paths of delete_instance, of detect_and_persist_local_tools, of
\* add_tool_instance or of validate_tool_path)
LiveOps ==
    { "delete_instance", "add_ssh_instance", "add_tool_instance",
      "detect_and_persist_single_tool", "detect_and_persist_local_tools",
      "refresh_all", "detect_install_methods", "update_instance",
      "check_update_for_instance", "refresh_all_tool_versions",
      "validate_tool_path", "detect_single_tool_with_cache" }

\* two callers of these, where a caller that can go on does: an awaited
\* probe ends, and the mutex hands the lock to a caller that keeps waiting
NextLockLive ==
    \E c \in Callers :
        \/ \E op \in LiveOps : lk_Start(c, op)
        \/ lk_Step(c)
SpecLockFair ==
    Init /\ [][NextLockLive]_vars /\ \A c \in Callers : SF_vars(lk_Step(c))

(* ------------------------------------------------------------------ *)
(* Claims                                                              *)
(* ------------------------------------------------------------------ *)

\* the Local rows of the store that claim the path p
LocalRowsAt(s, p) ==
    { r \in get_local_instances(s) : r.install_path = Some(p) }

\* the Local rows of the store whose base_id is tool_id
LocalRowsOf(s, tool_id) ==
    { r \in get_local_instances(s) : r.base_id = tool_id }

\* C1: in every reachable store state each non-null install_path is claimed
\* by at most one Local instance across all tools.
C1_PathClaimedOnce ==
    \A p \in Paths : Cardinality(LocalRowsAt(store, p)) <= 1

\* C2: after any number of sequential detect_and_persist_local_tools calls,
\* a following get_all_grouped returns at most one Local instance per tool id.
C2_GroupedOneLocalPerTool ==
    ret[1].op = "get_all_grouped" =>
        \A t \in KnownTools : Cardinality(LocalsOf(ret[1].grouped[t])) <= 1

\* C3: once two concurrent detect_and_persist_local_tools calls, both started
\* against an empty store, have finished, the store holds exactly one Local
\* row per registered tool.
C3_ConcurrentBatchOneRowPerTool ==
    (\A c \in Callers : ret[c].op = "detect_and_persist_local_tools") =>
        \A t \in KnownTools : Cardinality(LocalRowsOf(store, t)) = 1

\* the path a registration step of caller c is about to check: the path given
\* to add_tool_instance, or the path detect_and_persist_single_tool detected
C4_Path(c) ==
    IF pc[c] = "ati_save" THEN Some(loc[c].path)
    ELSE IF pc[c] = "dps_check" /\ loc[c].instance.installed
    THEN loc[c].instance.install_path
    ELSE None

\* the stored Local rows of other tools that claim that path
C4_OtherClaimants(c) ==
    { r \in get_local_instances(store) :
        r.install_path = C4_Path(c) /\ r.base_id # loc[c].tool_id }

\* C4: when a Local instance of another tool A already claims the path p,
\* registering tool B at p (add_tool_instance, or detect_and_persist_single_tool
\* detecting p) fails with a path-conflict error naming A; the store keeps A's
\* instance and holds no Local instance of B at p.
C4_PathConflictNamesOwner ==
    [][\A c \in Callers :
         ( /\ pc[c] \in {"ati_save", "dps_check"}
           /\ pc'[c] # pc[c]
           /\ C4_Path(c) # None
           /\ C4_OtherClaimants(c) # {} )
         => /\ pc'[c] = "idle"
            /\ ret'[c].ok = FALSE
            /\ ret'[c].err = "path_conflict"
            /\ ret'[c].used_by \in { r.tool_name : r \in C4_OtherClaimants(c) }
            /\ store' = store
            /\ \A r \in get_local_instances(store') :
                  ~(r.base_id = loc[c].tool_id /\ r.install_path = C4_Path(c))]_vars

\* detect_and_persist_single_tool has failed with a path conflict that names
\* the tool whose manually added instance holds the detected path
C4_Witness ==
    /\ ret[1].op = "detect_and_persist_single_tool"
    /\ ret[1].ok = FALSE
    /\ ret[1].err = "path_conflict"
    /\ \E r \in get_local_instances(store) :
          /\ r.install_path = ret[1].path
          /\ r.base_id # ret[1].tool_id
          /\ r.tool_name = ret[1].used_by
    /\ LocalRowsOf(store, ret[1].tool_id) = {}

\* add_tool_instance has failed with a path conflict naming another tool
C4_WitnessAdd ==
    /\ ret[1].op = "add_tool_instance"
    /\ ret[1].ok = FALSE
    /\ ret[1].err = "path_conflict"
    /\ \E r \in get_local_instances(store) :
          /\ r.install_path = ret[1].path
          /\ r.base_id # ret[1].tool_id
          /\ r.tool_name = ret[1].used_by

\* the freshly detected instances with installed = true that caller c's
\* refresh_local_tools holds after its fan-out
C5_FreshInstalled(c) ==
    { loc[c].results[t] : t \in { u \in DOMAIN loc[c].results : loc[c].results[u].installed } }

\* C5: when refresh_local_tools completes, the Local rows of the store are
\* exactly the freshly detected instances with installed = true (every other
\* Local row, built-in or not, is deleted; no row exists for a tool detected
\* as not installed), and the rows of the other types are as they were.
C5_RefreshLeavesFreshInstalled ==
    [][\A c \in Callers :
         (pc[c] = "rlt_reconcile" /\ pc'[c] = "idle")
         => /\ get_local_instances(store') = C5_FreshInstalled(c)
            /\ \A t \in KnownTools :
                  ~loc[c].results[t].installed => LocalRowsOf(store', t) = {}
            /\ store' \ get_local_instances(store') = store \ get_local_instances(store)
            /\ ret'[c].ok /\ ret'[c].instances = C5_FreshInstalled(c)]_vars

\* a refresh has removed the Local row of a known tool that is no longer
\* installed, and kept or written the row of one that is
C5_Witness ==
    /\ ret[1].op = "refresh_local_tools"
    /\ ret[1].instances # {}
    /\ \E id \in ret[1].removed :
          /\ id[1] \in KnownTools
          /\ ~env[id[1]].installed
          /\ LocalRowsOf(store, id[1]) = {}

\* a refresh has removed a Local row of a tool no detector knows: a row only
\* add_tool_instance writes, with is_builtin = false
C5_WitnessManual ==
    /\ ret[1].op = "refresh_local_tools"
    /\ \E id \in ret[1].removed : id[1] = UnknownTool

\* C6: detect_and_persist_single_tool(t), when the detector reports t as not
\* installed, writes no row and returns an instance with installed = false;
\* the store then holds no Local row with base_id t, whatever an earlier run
\* had stored for t.
C6_NotInstalledWritesNothing ==
    [][\A c \in Callers :
         ( /\ pc[c] \in {"dps_check", "dps_save"}
           /\ pc'[c] = "idle"
           /\ ~loc[c].instance.installed )
         => /\ store' = store
            /\ ret'[c].ok
            /\ ret'[c].instance.installed = FALSE
            /\ LocalRowsOf(store', loc[c].tool_id) = {}]_vars

\* the call found the tool uninstalled after an earlier run, the only writer
\* of Local rows here, had stored it: the earlier row was removed and nothing
\* was written
C6_Witness ==
    /\ ret[1].op = "detect_and_persist_single_tool"
    /\ ret[1].ok
    /\ ~ret[1].instance.installed
    /\ \E id \in ret[1].removed : id[1] = ret[1].tool_id
    /\ LocalRowsOf(store, ret[1].tool_id) = {}

\* the stored rows with the id a delete_instance step of caller c was given
C7_Target(c) == { r \in store : r.instance_id = ret'[c].instance_id }

\* C7: delete_instance(id) succeeds if and only if the store holds an instance
\* with that id that is SSH and not built-in; it then removes exactly that
\* row; in every other case (absent id, Local or WSL, built-in) it returns an
\* error and the store is unchanged.
C7_DeleteOnlyUserSSH ==
    [][\A c \in Callers :
         ( /\ pc[c] = "idle" /\ pc'[c] = "idle"
           /\ nops' = nops + 1
           /\ ret'[c].op = "delete_instance" )
         => /\ ret'[c].ok <=>
                  \E r \in C7_Target(c) : r.tool_type = "SSH" /\ ~r.is_builtin
            /\ ret'[c].ok => C7_Target(c) # {} /\ store' = store \ C7_Target(c)
            /\ ~ret'[c].ok => store' = store]_vars

\* a user's SSH instance has been deleted
C7_Witness ==
    /\ ret[1].op = "delete_instance"
    /\ ret[1].ok
    /\ ret[1].instance_id[2] = "ssh"
    /\ ~instance_exists(store, ret[1].instance_id)

\* the deletion of a stored built-in Local instance has been refused
C7_WitnessRefused ==
    /\ ret[1].op = "delete_instance"
    /\ ~ret[1].ok
    /\ \E r \in get_local_instances(store) :
          r.instance_id = ret[1].instance_id /\ r.is_builtin

\* the tool path exists, is a regular file and answers --version with a
\* text that holds a digit
C8_PathOK(f) ==
    /\ f.exists /\ f.is_file /\ f.result.success
    /\ \E i \in 1..Len(f.result.stdout) : IsNumeric(f.result.stdout[i])

\* the method is Other, or the installer path is given, exists and is a file
C8_InstallerOK(install_method, installer_path, g) ==
    \/ install_method = "Other"
    \/ IsSome(installer_path) /\ g.exists /\ g.is_file

\* the checks of steps 1 and 2 on what a record r tells of the call
C8_ChecksPass(r) ==
    /\ C8_PathOK(r.path_facts)
    /\ C8_InstallerOK(r.install_method, r.installer_path, r.installer_facts)

\* C8: add_tool_instance fails and leaves the store unchanged whenever a check
\* fails (tool path missing, not a file, or failing version validation;
\* method not Other with the installer path absent, missing or not a file;
\* path already claimed by a Local instance); only when all checks pass does
\* it insert exactly one new row, Local, installed, not built-in, carrying
\* the given path, method and installer path.
C8_AddChecksThenInserts ==
    [][\A c \in Callers :
         /\ (pc[c] = "ati_validate" /\ pc'[c] # pc[c])
            => /\ store' = store
               /\ pc'[c] \in {"idle", "ati_save"}
               /\ pc'[c] = "idle" => ~ret'[c].ok /\ ~C8_ChecksPass(ret'[c])
               /\ pc'[c] = "ati_save" => C8_ChecksPass(loc'[c])
         /\ (pc[c] = "ati_save" /\ pc'[c] # pc[c])
            => /\ pc'[c] = "idle"
               /\ LocalRowsAt(store, loc[c].path) # {} => ~ret'[c].ok
               /\ ~ret'[c].ok => store' = store
               /\ ret'[c].ok =>
                     /\ C8_ChecksPass(loc[c])
                     /\ LocalRowsAt(store, loc[c].path) = {}
                     /\ store \subseteq store'
                     /\ Cardinality(store' \ store) = 1
                     /\ \A r \in store' \ store :
                           /\ r.tool_type = "Local"
                           /\ r.installed
                           /\ ~r.is_builtin
                           /\ r.base_id = loc[c].tool_id
                           /\ r.install_path = Some(loc[c].path)
                           /\ r.install_method = Some(loc[c].install_method)
                           /\ r.installer_path = loc[c].installer_path]_vars

\* a manual registration with a method other than Other has passed every
\* check and its row is stored
C8_Witness ==
    /\ ret[1].op = "add_tool_instance"
    /\ ret[1].ok
    /\ \E r \in get_local_instances(store) :
          /\ r.instance_id = ret[1].instance_id
          /\ ~r.is_builtin
          /\ r.install_method = Some("Npm")
          /\ r.installer_path = Some(NpmPath)

\* a manual registration has failed on the installer path and wrote nothing
C8_WitnessRefused ==
    /\ ret[1].op = "add_tool_instance"
    /\ ~ret[1].ok
    /\ ret[1].err \in {"installer_required", "installer_not_exist", "installer_not_file"}
    /\ C8_PathOK(ret[1].path_facts)
    /\ store = {}

\* the positions of the status list that report tool t
C9_Positions(statuses, t) ==
    { i \in 1..Len(statuses) : statuses[i].id = t }

\* C9: get_local_tool_status returns exactly one ToolStatus per registered
\* tool: installed = false and version = None for a tool without a stored
\* Local instance, the installed flag and version of a stored Local instance
\* of the tool otherwise; the call changes neither the store nor anything else.
C9_OneStatusPerTool ==
    [][\A c \in Callers :
         (ret'[c] # ret[c] /\ ret'[c].op = "get_local_tool_status")
         => /\ store' = store /\ env' = env /\ now' = now
            /\ ret'[c].ok
            /\ Len(ret'[c].statuses) = Cardinality(KnownTools)
            /\ \A t \in KnownTools :
                  /\ Cardinality(C9_Positions(ret'[c].statuses, t)) = 1
                  /\ \A i \in C9_Positions(ret'[c].statuses, t) :
                        LET st == ret'[c].statuses[i]
                        IN IF LocalRowsOf(store, t) = {}
                           THEN st.installed = FALSE /\ st.version = None
                           ELSE \E r \in LocalRowsOf(store, t) :
                                  st.installed = r.installed /\ st.version = r.version]_vars

\* the statuses report one tool from its stored Local instance and another,
\* which has only an SSH or WSL instance, as not installed
C9_Witness ==
    /\ ret[1].op = "get_local_tool_status"
    /\ \E i, j \in 1..Len(ret[1].statuses) :
          /\ ret[1].statuses[i].installed
          /\ ret[1].statuses[i].version # None
          /\ ~ret[1].statuses[j].installed
          /\ \E r \in store : r.base_id = ret[1].statuses[j].id /\ r.tool_type # "Local"

\* C10: get_all_grouped is a store-only read: its result has a key for every
\* known tool id (an empty list when the tool has no instance), every stored
\* instance appears exactly once and only under its own base_id, and the
\* store and the environment are unchanged.
C10_GroupedIsStoreRead ==
    [][\A c \in Callers :
         (ret'[c] # ret[c] /\ ret'[c].op = "get_all_grouped")
         => LET g == ret'[c].grouped
            IN /\ store' = store /\ env' = env /\ now' = now
               /\ KnownTools \subseteq DOMAIN g
               /\ \A k \in DOMAIN g : \A i \in 1..Len(g[k]) :
                     g[k][i] \in store /\ g[k][i].base_id = k
               /\ \A r \in store :
                     /\ r.base_id \in DOMAIN g
                     /\ Cardinality({ i \in 1..Len(g[r.base_id]) : g[r.base_id][i] = r }) = 1
               /\ \A k \in KnownTools :
                     (\A r \in store : r.base_id # k) => g[k] = << >>]_vars

\* a grouped read has returned a key beside the known ones, a known tool with
\* instances and a known tool with the empty list
C10_Witness ==
    /\ ret[1].op = "get_all_grouped"
    /\ UnknownTool \in DOMAIN ret[1].grouped
    /\ \E k \in KnownTools : ret[1].grouped[k] # << >>
    /\ \E k \in KnownTools : ret[1].grouped[k] = << >>

\* C11: every instance a registry operation writes to the store satisfies: if
\* install_method is present and is not Other, installer_path is present.
C11_InstallerPathPresent ==
    \A r \in store :
        (IsSome(r.install_method) /\ Unwrap(r.install_method) # "Other")
            => IsSome(r.installer_path)

\* C12: every stored instance has exactly the discriminator of its
\* tool_type: Local rows have neither wsl_distro nor ssh_config, WSL rows
\* have wsl_distro and no ssh_config, SSH rows have ssh_config and no
\* wsl_distro.
C12_OneDiscriminatorPerType ==
    \A r \in store :
        /\ r.tool_type \in {"Local", "WSL", "SSH"}
        /\ r.tool_type = "Local" => r.wsl_distro = None /\ r.ssh_config = None
        /\ r.tool_type = "WSL" => IsSome(r.wsl_distro) /\ r.ssh_config = None
        /\ r.tool_type = "SSH" => IsSome(r.ssh_config) /\ r.wsl_distro = None

\* the store holds a WSL instance beside an SSH instance
C12_Witness ==
    /\ \E r \in store : r.tool_type = "WSL" /\ r.wsl_distro = Some("Ubuntu")
    /\ \E r \in store : r.tool_type = "SSH" /\ r.ssh_config = Some("hostA")

\* the store holds a detected Local instance beside a WSL instance
C12_WitnessLocal ==
    /\ \E r \in store : r.tool_type = "Local" /\ r.installed
    /\ \E r \in store : r.tool_type = "WSL"

\* C13: a WSL or SSH row stays in the store, unchanged, through every step
\* of detect_and_persist_local_tools, detect_and_persist_single_tool,
\* refresh_local_tools, update_instance, check_update_for_instance and
\* refresh_all_tool_versions; it leaves the store only by a successful
\* delete_instance of its id.
C13_RemoteRows(s) == { r \in s : r.tool_type \in {"WSL", "SSH"} }
C13_DeletedNow(id) ==
    \E c \in Callers :
        /\ pc[c] = "idle"
        /\ pc'[c] = "idle"
        /\ nops' # nops
        /\ ret'[c].op = "delete_instance"
        /\ ret'[c].ok
        /\ ret'[c].instance_id = id
C13_RemoteRowsPersist ==
    [][\A r \in C13_RemoteRows(store) : r \in store' \/ C13_DeletedNow(r.instance_id)]_vars

\* refresh_all_tool_versions has rewritten the Local row's version and the
\* single-tool detection has run, with the WSL and the SSH row still there
C13_Witness ==
    /\ SeedWSL \in store
    /\ SeedSSH \in store
    /\ pc[1] = "idle"
    /\ ret[1].op \in {"detect_and_persist_single_tool", "refresh_local_tools",
                      "detect_and_persist_local_tools"}
    /\ \E r \in store : r.tool_type = "Local" /\ r.version = Some(<<"2">>)

\* delete_instance has removed the SSH row, and the WSL row is still there
C13_WitnessDeleted ==
    /\ SeedWSL \in store
    /\ SeedSSH \notin store
    /\ pc[1] = "idle"
    /\ ret[1].op = "delete_instance"
    /\ ret[1].ok

\* C15: a caller that holds the store lock does next a store call or the
\* release: it never awaits a probe, and never returns, with the lock held;
\* and a store call is made with the lock held.
C15_NoProbeUnderLock ==
    \A c \in Callers :
        pc[c] = "lk_run" =>
            /\ loc[c].held => NextEvent(c) \in {"store", "unlock"}
            /\ NextEvent(c) = "store" => loc[c].held
            /\ Cardinality(Holders) <= 1

\* caller 1 awaits the probe of detect_and_persist_single_tool, after its
\* first lock scope, while caller 2 holds the lock
C15_Witness ==
    /\ pc[1] = "lk_run"
    /\ loc[1].op = "detect_and_persist_single_tool"
    /\ loc[1].rest = Probed \o Locked \o Locked
    /\ Holders = {2}

\* the row update_instance writes back, and the store with that row in the
\* place of the one of its id
C14_Written(c) ==
    WithVersion(loc[c].instance, loc[c].result.current_version, now)
C14_Replaced(c) ==
    { r \in store : r.instance_id # loc[c].instance.instance_id }
        \cup {C14_Written(c)}

\* the cases of update_instance before its write: not-found without running
\* the installer exactly when id is no stored Local instance; an installer
\* error is the operation's error and leaves the store as it was; so does a
\* result that is no success (or carries no version)
C14_BeforeWrite(c) ==
    /\ (pc[c] = "idle" /\ pc'[c] = "upd_install")
         => /\ store' = store
            /\ loc'[c].instance \in store
            /\ loc'[c].instance.tool_type = "Local"
    /\ (pc[c] = "idle" /\ pc'[c] = "idle" /\ nops' # nops
          /\ ret'[c].op = "update_instance")
         => /\ store' = store
            /\ ~ret'[c].ok
            /\ ret'[c].err = "not_found"
            /\ \A r \in store : ~(r.instance_id = ret'[c].instance_id
                                    /\ r.tool_type = "Local")
    /\ (pc[c] = "upd_install" /\ pc'[c] # pc[c])
         => /\ store' = store
            /\ pc'[c] \in {"idle", "upd_write"}
            /\ (pc'[c] = "idle" /\ ~ret'[c].ok) => ret'[c].err = "installer_error"
            /\ (pc'[c] = "idle" /\ ret'[c].ok)
                 => ~(ret'[c].result.success /\ IsSome(ret'[c].result.current_version))
            /\ pc'[c] = "upd_write"
                 => loc'[c].result.success /\ IsSome(loc'[c].result.current_version)

\* C14 (amended): update_instance(id, force) answers not-found, without
\* running the installer, exactly when id is no stored Local instance; an
\* installer error is the operation's error and leaves the store as it was;
\* so does a result that is no success (or carries no version); a successful
\* result with a version is returned, and either the stored row's version is
\* set to it and its updated_at to the clock with nothing else changed, or
\* the store has refused the write and is as it was.
C14_StepUnlessRefused(c) ==
    /\ C14_BeforeWrite(c)
    /\ (pc[c] = "upd_write" /\ pc'[c] # pc[c])
         => /\ pc'[c] = "idle"
            /\ ret'[c].ok
            /\ ret'[c].result = loc[c].result
            /\ store' = C14_Replaced(c) \/ store' = store
            /\ C14_Written(c).version = loc[c].result.current_version
            /\ C14_Written(c).updated_at = now
            /\ \A f \in DOMAIN loc[c].instance \ {"version", "updated_at"} :
                   C14_Written(c)[f] = loc[c].instance[f]
C14_UpdateInstanceOutcomesUnlessRefused ==
    [][\A c \in Callers : C14_StepUnlessRefused(c)]_vars

\* C14 (as claimed): update_instance(id, force) answers not-found, without
\* running the installer, exactly when id is no stored Local instance; an
\* installer error is the operation's error and leaves the store as it was;
\* so does a result that is no success (or carries no version); a successful
\* result with a version sets the stored row's version to it and its
\* updated_at to the clock, and changes nothing else.
C14_Step(c) ==
    /\ C14_BeforeWrite(c)
    /\ (pc[c] = "upd_write" /\ pc'[c] # pc[c])
         => /\ pc'[c] = "idle"
            /\ ret'[c].ok
            /\ ret'[c].result = loc[c].result
            /\ store' = C14_Replaced(c)
            /\ C14_Written(c).version = loc[c].result.current_version
            /\ C14_Written(c).updated_at = now
            /\ \A f \in DOMAIN loc[c].instance \ {"version", "updated_at"} :
                   C14_Written(c)[f] = loc[c].instance[f]
C14_UpdateInstanceOutcomes == [][\A c \in Callers : C14_Step(c)]_vars

\* a successful update has written version 2 over version 1, one second
\* after the row was created
C14_Witness ==
    /\ pc[1] = "idle"
    /\ ret[1].op = "update_instance"
    /\ ret[1].ok
    /\ ret[1].result.success
    /\ \E r \in store :
         /\ r.instance_id = ret[1].instance.instance_id
         /\ r.version = Some(<<"2">>)
         /\ ret[1].instance.version = Some(FirstVersion)
         /\ r.updated_at = 1
         /\ r.created_at = 0

\* the installer has reported version 2 over version 1, the store has
\* refused the write, and the call has returned the result with the row as
\* it was
C14_WitnessRefused ==
    /\ pc[1] = "idle"
    /\ ret[1].op = "update_instance"
    /\ ret[1].ok
    /\ ret[1].result.success
    /\ ret[1].result.current_version = Some(<<"2">>)
    /\ ret[1].instance.version = Some(FirstVersion)
    /\ ret[1].instance \in store

\* the installer has failed, and the row is as it was
C14_WitnessError ==
    /\ pc[1] = "idle"
    /\ ret[1].op = "update_instance"
    /\ ~ret[1].ok
    /\ ret[1].err = "installer_error"
    /\ ret[1].instance \in store

\* caller d's update_instance has written the version its installer
\* reported, the command has invalidated the cache for it, the tool has that
\* version, and nothing about any tool has changed since the invalidation
C16_Updated(d) ==
    /\ pc[d] = "idle"
    /\ ret[d].op = "update_instance"
    /\ ret[d].ok
    /\ ret[d].result.success
    /\ IsSome(ret[d].result.current_version)
    /\ \E r \in store : /\ r.instance_id = ret[d].instance.instance_id
                        /\ r.version = ret[d].result.current_version
    /\ "invalidated_at" \in DOMAIN ret[d]
    /\ ret[d].invalidated_at = nenv
    /\ env[ret[d].instance.base_id].installed
    /\ env[ret[d].instance.base_id].version = ret[d].result.current_version

\* caller c's get_all_status returns in this step
C16_Returns(c) ==
    /\ pc'[c] = "idle"
    /\ ret'[c].op = "get_all_status"
    /\ pc[c] # "idle" \/ ret'[c] # ret[c]

\* C16: the status cache is invalidated on an update: once an
\* update_instance that wrote a new version has completed, its command
\* having invalidated the cache, a get_all_status that returns does not
\* answer with a status computed before the update: the status of the updated
\* tool carries the version the tool has had since the update.
C16_NoStatusFromBeforeUpdate ==
    [][\A c \in Callers : \A d \in Callers \ {c} :
          (C16_Updated(d) /\ C16_Returns(c))
              => \A i \in 1..Len(ret'[c].statuses) :
                     ret'[c].statuses[i].id = ret[d].instance.base_id
                         => ret'[c].statuses[i].version
                                = ret[d].result.current_version]_vars

\* C17: get_all_status returns one ToolStatus per known tool, in the order
\* of the tools: on a hit (every tool cached) straight from the cache,
\* without a detection and without a write; on a miss (some tool not cached)
\* after a detection of all tools, whose every result is then cached; and
\* clear() empties the cache, so that the next call is a miss.
C17_OnePerTool(statuses) ==
    /\ Len(statuses) = Len(Tool_all)
    /\ \A i \in 1..Len(Tool_all) : statuses[i].id = Tool_all[i].id
C17_Step(c) ==
    /\ (pc[c] = "idle" /\ pc'[c] = "idle" /\ ret'[c] # ret[c]
          /\ ret'[c].op = "get_all_status")
         => /\ AllCached(cache)
            /\ ret'[c].hit
            /\ cache' = cache
            /\ C17_OnePerTool(ret'[c].statuses)
            /\ \A i \in 1..Len(Tool_all) : ret'[c].statuses[i] = cache[Tool_all[i].id]
    /\ (pc[c] = "idle" /\ pc'[c] = "gas_detect") => ~AllCached(cache)
    /\ (pc[c] = "gas_insert" /\ pc'[c] = "idle")
         => /\ ~ret'[c].hit
            /\ C17_OnePerTool(ret'[c].statuses)
            /\ AllCached(cache')
            /\ \A i \in 1..Len(Tool_all) : cache'[Tool_all[i].id] = ret'[c].statuses[i]
    /\ (pc[c] = "idle" /\ pc'[c] = "idle" /\ nops' # nops /\ ret'[c].op = "clear")
         => cache' = NoCache /\ ~AllCached(cache')
C17_OneStatusPerTool == [][\A c \in Callers : C17_Step(c)]_vars

\* a hit has answered with the three cached statuses
C17_Witness ==
    /\ pc[2] = "idle"
    /\ ret[2].op = "get_all_status"
    /\ ret[2].hit
    /\ Len(ret[2].statuses) = 3
    /\ ret[2].statuses[2].installed

\* after a clear() the next call has detected again and filled the cache
C17_WitnessAfterClear ==
    /\ pc[1] = "idle"
    /\ ret[1].op = "clear"
    /\ pc[2] = "idle"
    /\ ret[2].op = "get_all_status"
    /\ ~ret[2].hit
    /\ AllCached(cache)

\* C18: a get_tool_instance_selection(t) that follows a successful
\* set_tool_instance_selection(t, i) returns Some(i); for a tool no selection
\* was ever set for it returns None; a successful set_tool_instance_selection
\* leaves selected_provider_id and the other tools' selections as they were;
\* a get_selected_provider_id that follows a successful
\* set_selected_provider_id(v) returns v, and that set leaves the selections
\* as they were; the file written holds the store that is cached.
\* the store before caller c's setter: the cached one, which the setter has
\* not yet replaced, or with nothing cached (the default store could not be
\* written) the default store the setter started from
C18_Before(c) ==
    IF IsSome(dashboard.cache) THEN Unwrap(dashboard.cache)
    ELSE loc[c].loaded
C18_Step(c) ==
    /\ (pc'[c] = "idle" /\ ret'[c] # ret[c]
          /\ ret'[c].op = "get_tool_instance_selection" /\ ret'[c].ok)
         => /\ (ret[c].op = "set_tool_instance_selection" /\ ret[c].ok
                  /\ ret[c].tool_id = ret'[c].tool_id)
                 => ret'[c].value = Some(ret[c].instance_id)
            /\ ret'[c].tool_id \notin SelectionTools => ret'[c].value = None
    /\ (pc'[c] = "idle" /\ ret'[c] # ret[c]
          /\ ret'[c].op = "get_selected_provider_id" /\ ret'[c].ok
          /\ ret[c].op = "set_selected_provider_id" /\ ret[c].ok)
         => ret'[c].value = ret[c].provider_id
    /\ (pc[c] = "dm_save_cache" /\ pc'[c] = "idle" /\ ret'[c].ok)
         => LET before == C18_Before(c)
                after == Unwrap(dashboard'.cache)
            IN /\ from_value(Unwrap(dashboard'.file)) = after
               /\ ret'[c].op = "set_tool_instance_selection"
                    => /\ after.selected_provider_id = before.selected_provider_id
                       /\ after.tool_instance_selections =
                              MapInsert(before.tool_instance_selections,
                                        ret'[c].tool_id, ret'[c].instance_id)
               /\ ret'[c].op = "set_selected_provider_id"
                    => /\ after.selected_provider_id = ret'[c].provider_id
                       /\ after.tool_instance_selections = before.tool_instance_selections
C18_DashboardRoundTrip == [][\A c \in Callers : C18_Step(c)]_vars

\* after set_selected_provider_id(duckcoding) and
\* set_tool_instance_selection(codex, codex-wsl-Ubuntu), the get of codex has
\* returned that instance id and the provider id is still there
C18_Witness ==
    /\ pc[1] = "idle"
    /\ ret[1].op = "get_tool_instance_selection"
    /\ ret[1].ok
    /\ ret[1].tool_id = "codex"
    /\ ret[1].value = Some("codex-wsl-Ubuntu")
    /\ IsSome(dashboard.cache)
    /\ Unwrap(dashboard.cache).selected_provider_id = Some("duckcoding")

\* set_selected_provider_id(None) has cleared a provider id that was set
C18_WitnessCleared ==
    /\ pc[1] = "idle"
    /\ ret[1].op = "get_selected_provider_id"
    /\ ret[1].ok
    /\ ret[1].value = None
    /\ nops = 2
    /\ IsSome(dashboard.file)
    /\ Unwrap(dashboard.file).updated_at = 1

\* C19: validate_tool_path(path) succeeds exactly when the path exists, is a
\* regular file, the command `{path} --version` succeeds and its trimmed
\* output is non-empty and contains a digit, and then returns the trimmed
\* output; a path that does not exist is refused with the path-does-not-exist
\* error before any command runs; no step of it changes the store.
C19_Digits == {"0", "1", "2", "3", "4", "5", "6", "7", "8", "9"}
C19_Step(c) ==
    /\ (pc[c] = "idle" /\ pc'[c] = "idle" /\ ret'[c] # ret[c]
          /\ ret'[c].op = "validate_tool_path")
         => /\ store' = store
            /\ ~ret'[c].ok
            /\ ~ret'[c].executed
            /\ ~(ret'[c].exists /\ ret'[c].is_file)
            /\ ~ret'[c].exists => ret'[c].err = "path_not_exist"
    /\ (pc[c] = "idle" /\ pc'[c] = "vtp_exec") => store' = store
    /\ (pc[c] = "vtp_exec" /\ pc'[c] = "idle")
         => LET out == Trim(ret'[c].result.stdout)
            IN /\ store' = store
               /\ ret'[c].exists /\ ret'[c].is_file /\ ret'[c].executed
               /\ ret'[c].ok <=> /\ ret'[c].result.success
                                  /\ out # << >>
                                  /\ \E i \in 1..Len(out) : out[i] \in C19_Digits
               /\ ret'[c].ok => /\ ret'[c].version = out
                                 /\ Head(out) \notin {" ", "\n"}
                                 /\ out[Len(out)] \notin {" ", "\n"}
C19_ValidateToolPath == [][\A c \in Callers : C19_Step(c)]_vars

\* caller 1 got the trimmed version of an output with blanks around it, and
\* caller 2 was refused a path that does not exist, without a command
C19_Witness ==
    /\ pc[1] = "idle"
    /\ ret[1].op = "validate_tool_path"
    /\ ret[1].ok
    /\ ret[1].result.stdout = <<" ", "2", "\n">>
    /\ ret[1].version = <<"2">>
    /\ pc[2] = "idle"
    /\ ret[2].op = "validate_tool_path"
    /\ ~ret[2].ok
    /\ ret[2].err = "path_not_exist"
    /\ ~ret[2].executed
    /\ store # {}

\* C20: once every call of detect_and_persist_single_tool(codex) has
\* completed, however the calls interleaved, the store holds at most one
\* Local row of codex.
C20_OneLocalRowAfterConcurrentDetection ==
    (\A c \in Callers : pc[c] = "idle")
        => Cardinality(LocalRowsOf(store, "codex")) <= 1

\* C21: in detect_and_persist_local_tools and refresh_local_tools the store
\* is left alone as long as detections are being awaited, and the operation
\* enters its lock scope, and writes, only with the completed detection of
\* every registered detector.
C21_StorePcs == {"dpl_persist", "rlt_reconcile"}
C21_Step(c) ==
    /\ pc[c] = "fan_detect" => store' = store
    /\ pc'[c] \in C21_StorePcs => DOMAIN loc'[c].results = all_detectors
    /\ store' # store
         => /\ pc[c] \in C21_StorePcs
            /\ DOMAIN loc[c].results = all_detectors
C21_FanInBeforeStore == [][C21_Step(1)]_vars

\* a batch has written its rows after detections that completed in
\* different seconds
C21_Witness ==
    /\ pc[1] = "idle"
    /\ ret[1].op = "detect_and_persist_local_tools"
    /\ ret[1].instances["codex"].created_at # ret[1].instances["gemini-cli"].created_at
    /\ ret[1].instances["codex"] \in store
    /\ ret[1].instances["gemini-cli"] \in store

\* a refresh has reconciled the store after its join
C21_WitnessRefresh ==
    /\ pc[1] = "idle"
    /\ ret[1].op = "refresh_local_tools"
    /\ ret[1].instances # {}
    /\ ret[1].instances \subseteq store

\* C22: detect_and_persist_local_tools returns Ok with the detection result
\* of every registered detector, whichever upserts fail: the instances whose
\* upsert works are in the store afterwards (installed or not), an instance
\* whose upsert fails changes nothing, and every other row stays.
C22_Step(c) ==
    (pc[c] = "dpl_persist" /\ pc'[c] = "idle")
        => LET done == { ret'[c].instances[t] : t \in all_detectors \ ret'[c].failed }
           IN /\ ret'[c].ok
              /\ ret'[c].instances = loc[c].results
              /\ DOMAIN ret'[c].instances = all_detectors
              /\ store' = { r \in store :
                              \A i \in done : i.instance_id # r.instance_id } \cup done
              /\ \A t \in ret'[c].failed :
                     ret'[c].instances[t] \in store' <=> ret'[c].instances[t] \in store
C22_FailingUpsertNotFatal == [][C22_Step(1)]_vars

\* the upsert of the installed codex has failed; the batch has returned all
\* three results and has stored the two others, which are not installed
C22_Witness ==
    /\ pc[1] = "idle"
    /\ ret[1].op = "detect_and_persist_local_tools"
    /\ ret[1].ok
    /\ ret[1].failed = {"codex"}
    /\ ret[1].instances["codex"].installed
    /\ ret[1].instances["codex"] \notin store
    /\ ~ret[1].instances["gemini-cli"].installed
    /\ ret[1].instances["gemini-cli"] \in store
    /\ ret[1].instances["claude-code"] \in store

\* C23: check_update_for_instance fails hard when the instance has an
\* install_path and its version command does not succeed: it returns an
\* error without reaching the remote check and leaves the store unchanged;
\* a succeeding command's parsed output is the current version; an instance
\* without install_path does not fail, runs no command and takes its stored
\* version as the current version.
C23_Step(c) ==
    (pc[c] = "chk_version" /\ pc'[c] # pc[c]) =>
        LET instance == loc[c].instance
        IN /\ store' = store
           /\ pc'[c] \in {"idle", "chk_remote"}
           /\ pc'[c] = "idle" =>
                 /\ IsSome(instance.install_path)
                 /\ ret'[c].op = "check_update_for_instance"
                 /\ ~ret'[c].ok
                 /\ ret'[c].err = "version_command_failed"
                 /\ ~Unwrap(ret'[c].version_cmd).success
           /\ (pc'[c] = "chk_remote" /\ IsSome(instance.install_path)) =>
                 /\ Unwrap(loc'[c].version_cmd).success
                 /\ loc'[c].current_version =
                        Some(parse_version_string(
                                 Trim(Unwrap(loc'[c].version_cmd).stdout)))
           /\ instance.install_path = None =>
                 /\ pc'[c] = "chk_remote"
                 /\ loc'[c].version_cmd = None
                 /\ loc'[c].current_version = instance.version
C23_VersionCommandFailureIsHard == [][C23_Step(1)]_vars

\* a check of the codex instance has failed on its version command
C23_Witness ==
    /\ pc[1] = "idle"
    /\ ret[1].op = "check_update_for_instance"
    /\ ~ret[1].ok
    /\ ret[1].err = "version_command_failed"
    /\ ret[1].instance = SeedLocal
    /\ SeedLocal \in store

\* a check of the instance without a path has reached the remote check with
\* the stored version
C23_WitnessNoPath ==
    /\ pc[1] = "chk_remote"
    /\ loc[1].instance = SeedPathless
    /\ loc[1].current_version = Some(FirstVersion)

\* C24 as stated: once the current version is known, check_update_for_instance
\* returns a result object.
C24_ResultStep(c) ==
    (pc[c] = "chk_remote" /\ pc'[c] = "idle") => ret'[c].ok
C24_AlwaysResultOnceVersionKnown == [][C24_ResultStep(1)]_vars

\* C24, amended: for an instance whose base_id names a known tool, once the
\* current version is known check_update_for_instance returns a result
\* object: a failure of the remote version service yields success = true,
\* has_update = false, no latest version and the 'could not check' message,
\* with the observed current version; a succeeding remote check yields the
\* service's answer; the write-back step returns that same result.
C24_Step(c) ==
    /\ (pc[c] = "chk_remote" /\ pc'[c] # pc[c]
            /\ Tool_by_id(loc[c].instance.base_id) # None) =>
          /\ pc'[c] \in {"idle", "chk_write"}
          /\ pc'[c] = "idle" => ret'[c].ok
          /\ LET out == IF pc'[c] = "idle" THEN ret'[c] ELSE loc'[c]
                 r == out.result
                 info == out.version_info
             IN /\ r.success
                /\ r.current_version = loc[c].current_version
                /\ r.tool_id = Some(loc[c].instance.base_id)
                /\ ~info.ok => /\ ~r.has_update
                               /\ r.latest_version = None
                               /\ r.message = "could_not_check"
                /\ info.ok => /\ r.has_update = info.has_update
                              /\ r.latest_version = info.latest_version
                              /\ r.message = "check_done"
    /\ (pc[c] = "chk_write" /\ pc'[c] # pc[c]) =>
          /\ pc'[c] = "idle"
          /\ ret'[c].ok
          /\ ret'[c].result = loc[c].result
C24_RemoteFailureIsNotFatal == [][C24_Step(1)]_vars

\* a check of codex has returned 'could not check' with a version it
\* observed and the store did not have
C24_Witness ==
    /\ pc[1] = "idle"
    /\ ret[1].op = "check_update_for_instance"
    /\ ret[1].ok
    /\ ret[1].instance = SeedLocal
    /\ ret[1].result.message = "could_not_check"
    /\ ret[1].result.success
    /\ ret[1].result.current_version = Some(<<"2">>)

\* C25 as stated: check_update_for_instance goes on to write the store if
\* and only if the observed current version differs from the stored one.
C25_WriteIffStep(c) ==
    (pc[c] = "chk_remote" /\ pc'[c] # pc[c]) =>
        (pc'[c] = "chk_write" <=> loc[c].current_version # loc[c].instance.version)
C25_WritesIffVersionDiffers == [][C25_WriteIffStep(1)]_vars

\* the store after the write-back of caller c's check: the instance's row with
\* the observed version and the time of the write, every other row as it was
C25_Written(c) ==
    { IF r.instance_id = loc[c].instance.instance_id
      THEN [r EXCEPT !.version = loc[c].current_version, !.updated_at = now]
      ELSE r : r \in store }

\* C25, amended: for an instance of a known tool, check_update_for_instance
\* writes to the store if and only if the observed current version differs
\* from the stored version, whether or not the remote check succeeded; the
\* write changes only version and updated_at of that instance; a failing
\* write leaves the store as it is and the call returns its result all the
\* same. No other step of the operation changes the store.
C25_Step(c) ==
    /\ (pc[c] = "chk_remote" /\ pc'[c] # pc[c]
            /\ Tool_by_id(loc[c].instance.base_id) # None) =>
          /\ pc'[c] = "chk_write" <=>
                 loc[c].current_version # loc[c].instance.version
          /\ pc'[c] \in {"chk_write", "idle"}
          /\ pc'[c] = "idle" => ret'[c].ok
    /\ (pc[c] = "chk_write" /\ pc'[c] # pc[c]) =>
          /\ store' \in {store, C25_Written(c)}
          /\ pc'[c] = "idle"
          /\ ret'[c].ok
          /\ ret'[c].result = loc[c].result
          /\ ret'[c].wrote <=> store' # store
    /\ (pc[c] \in {"chk_version", "chk_remote"} \/ pc'[c] = "chk_version") =>
          store' = store
C25_WriteBackOnlyOnChange == [][C25_Step(1)]_vars

\* a check of codex whose remote check failed has written the observed
\* version back
C25_Witness ==
    /\ pc[1] = "idle"
    /\ ret[1].op = "check_update_for_instance"
    /\ ret[1].ok
    /\ ret[1].wrote
    /\ ~ret[1].version_info.ok
    /\ \E r \in store : /\ r.instance_id = SeedLocal.instance_id
                         /\ r.version = Some(<<"2">>)
                         /\ r = [SeedLocal EXCEPT !.version = Some(<<"2">>),
                                                  !.updated_at = now]
                         /\ now > 0

\* a check of codex has returned its result although the store refused the
\* write of the observed version
C25_WitnessWriteFailed ==
    /\ pc[1] = "idle"
    /\ ret[1].op = "check_update_for_instance"
    /\ ret[1].ok
    /\ ~ret[1].wrote
    /\ ret[1].result.current_version = Some(<<"2">>)
    /\ SeedLocal \in store

\* the one status that a turn appends for instance i, reporting version v
C26_Pushed(old, new, i, v) ==
    new = Append(old, [id |-> i.base_id, name |-> i.tool_name,
                       installed |-> i.installed, version |-> v])

\* C26: refresh_all_tool_versions never fails because of one instance. Its
\* loop starts on the Local instances of the snapshot; each turn takes one
\* instance off and pushes exactly one ToolStatus for it. A turn writes only
\* after a succeeding version command whose parsed output differs from the
\* stored version (so not after a failing command and not without an
\* install_path, where the stored version is reported and the store is left
\* alone); the write changes version and updated_at of that row only, and a
\* refused write is ignored, the new version being reported all the same.
\* The call returns Ok when no instance is left.
C26_Step(c) ==
    /\ (pc[c] = "idle" /\ nops' # nops
            /\ (pc'[c] = "rav_probe"
                   \/ (pc'[c] = "idle" /\ ret'[c].op = "refresh_all_tool_versions"))) =>
          LET locals == { i \in store : i.tool_type = "Local" }
          IN /\ store' = store
             /\ IF locals = {}
                THEN pc'[c] = "idle" /\ ret'[c].ok /\ ret'[c].statuses = << >>
                ELSE /\ pc'[c] = "rav_probe"
                     /\ loc'[c].todo = locals
                     /\ loc'[c].statuses = << >>
    /\ (pc[c] = "rav_probe" /\ (pc'[c] # pc[c] \/ loc'[c] # loc[c])) =>
          /\ store' = store
          /\ pc'[c] \in {"rav_probe", "rav_write", "idle"}
          /\ pc'[c] = "rav_write" =>
                LET i == loc'[c].instance
                IN /\ i \in loc[c].todo
                   /\ loc'[c].todo = loc[c].todo
                   /\ loc'[c].statuses = loc[c].statuses
                   /\ IsSome(i.install_path)
                   /\ loc'[c].version_cmd # None
                   /\ Unwrap(loc'[c].version_cmd).success
                   /\ loc'[c].new_version =
                          Some(parse_version_string(
                                   Trim(Unwrap(loc'[c].version_cmd).stdout)))
                   /\ loc'[c].new_version # i.version
          /\ pc'[c] # "rav_write" =>
                LET out == IF pc'[c] = "idle" THEN ret'[c] ELSE loc'[c]
                    left == IF pc'[c] = "idle" THEN {} ELSE loc'[c].todo
                IN /\ left \subseteq loc[c].todo
                   /\ Cardinality(loc[c].todo \ left) = 1
                   /\ \E i \in loc[c].todo \ left :
                        C26_Pushed(loc[c].statuses, out.statuses, i, i.version)
    /\ (pc[c] = "rav_write" /\ pc'[c] # pc[c]) =>
          LET out == IF pc'[c] = "idle" THEN ret'[c] ELSE loc'[c]
              left == IF pc'[c] = "idle" THEN {} ELSE loc'[c].todo
              i == loc[c].instance
          IN /\ pc'[c] \in {"rav_probe", "idle"}
             /\ left = loc[c].todo \ {i}
             /\ C26_Pushed(loc[c].statuses, out.statuses, i, loc[c].new_version)
             /\ store' \in { store,
                              { IF r.instance_id = i.instance_id
                                THEN [r EXCEPT !.version = loc[c].new_version,
                                               !.updated_at = now]
                                ELSE r : r \in store } }
    /\ (pc[c] \in {"rav_probe", "rav_write"} /\ pc'[c] = "idle") =>
          /\ ret'[c].op = "refresh_all_tool_versions"
          /\ ret'[c].ok
          /\ Len(ret'[c].statuses) =
                Cardinality({ r \in store' : r.tool_type = "Local" })
C26_RefreshAllNeverFails == [][C26_Step(1)]_vars

\* a refresh over codex and the pathless gemini-cli has returned their two
\* statuses with the stored versions, the store being as it was
C26_Witness ==
    /\ pc[1] = "idle"
    /\ ret[1].op = "refresh_all_tool_versions"
    /\ ret[1].ok
    /\ Len(ret[1].statuses) = 2
    /\ \A k \in 1..2 : ret[1].statuses[k].version = Some(FirstVersion)
    /\ store = {SeedLocal, SeedPathless}

\* a refresh has written codex's new version
C26_WitnessWritten ==
    /\ pc[1] = "idle"
    /\ ret[1].op = "refresh_all_tool_versions"
    /\ \E k \in 1..Len(ret[1].statuses) :
         /\ ret[1].statuses[k].id = "codex"
         /\ ret[1].statuses[k].version = Some(<<"2">>)
    /\ [SeedLocal EXCEPT !.version = Some(<<"2">>), !.updated_at = now] \in store
    /\ now > 0

\* a refresh has reported codex's new version although the store refused
\* the write
C26_WitnessWriteFailed ==
    /\ pc[1] = "idle"
    /\ ret[1].op = "refresh_all_tool_versions"
    /\ \E k \in 1..Len(ret[1].statuses) :
         /\ ret[1].statuses[k].id = "codex"
         /\ ret[1].statuses[k].version = Some(<<"2">>)
    /\ SeedLocal \in store

\* the installed Local rows of tool t in store s
C27_Held(s, t) ==
    { r \in s : r.base_id = t /\ r.tool_type = "Local" /\ r.installed }

\* C27: detect_single_tool_with_cache(t, force_redetect) with force_redetect
\* false and an installed Local instance of t in the store returns the
\* status of such an instance at once, with no probe and the store unchanged;
\* otherwise it runs detect_and_persist_single_tool(t), whose first step
\* deletes the Local rows of t, and returns the status of what that detected.
C27_Step(c) ==
    /\ (pc[c] = "idle" /\ nops' # nops
            /\ (pc'[c] = "dswc_detect"
                   \/ (pc'[c] = "idle" /\ ret'[c].op = "detect_single_tool_with_cache"))) =>
          LET call == IF pc'[c] = "idle" THEN ret'[c] ELSE loc'[c]
              held == C27_Held(store, call.tool_id)
          IN /\ store' = store
             /\ IF ~call.force_redetect /\ held # {}
                THEN /\ pc'[c] = "idle"
                     /\ ret'[c].ok
                     /\ ret'[c].cached
                     /\ \E e \in held :
                          ret'[c].status = [id |-> call.tool_id, name |-> e.tool_name,
                                            installed |-> TRUE, version |-> e.version]
                ELSE pc'[c] = "dswc_detect"
    /\ (pc[c] = "dswc_detect" /\ pc'[c] # pc[c]) =>
          /\ pc'[c] = "dps_detect"
          /\ loc'[c].tool_id = loc[c].tool_id
          /\ store' = { r \in store :
                          ~(r.base_id = loc[c].tool_id /\ r.tool_type = "Local") }
    /\ (pc[c] = "dps_save" /\ pc'[c] = "idle" /\ loc[c].via = "with_cache") =>
          /\ ret'[c].op = "detect_single_tool_with_cache"
          /\ ret'[c].ok
          /\ ~ret'[c].cached
          /\ ret'[c].status = [id |-> loc[c].tool_id,
                               name |-> loc[c].instance.tool_name,
                               installed |-> loc[c].instance.installed,
                               version |-> loc[c].instance.version]
C27_CachedDetection == [][C27_Step(1)]_vars

\* the store's codex was returned as it is stored, version 1, although the
\* installed codex is at version 2 by now
C27_Witness ==
    /\ pc[1] = "idle"
    /\ ret[1].op = "detect_single_tool_with_cache"
    /\ ret[1].ok
    /\ ret[1].cached
    /\ ret[1].tool_id = "codex"
    /\ ret[1].status.version = Some(<<"1">>)
    /\ env["codex"].version = Some(<<"2">>)
    /\ SeedLocal \in store

\* a forced detection has replaced the stored codex by the one installed now
C27_WitnessForced ==
    /\ pc[1] = "idle"
    /\ ret[1].op = "detect_single_tool_with_cache"
    /\ ret[1].ok
    /\ ~ret[1].cached
    /\ ret[1].status.version = Some(<<"2">>)
    /\ SeedLocal.instance_id \in ret[1].removed
    /\ SeedLocal \notin store

\* the not-installed claude-code row did not answer: the detection ran
C27_WitnessNotInstalled ==
    /\ pc[1] = "dps_detect"
    /\ loc[1].via = "with_cache"
    /\ loc[1].tool_id = "claude-code"
    /\ SeedNoPath.instance_id \in loc[1].removed

\* the steps of caller c's add_ssh_instance
C28_Step(c) ==
    /\ (pc[c] = "idle" /\ pc'[c] = "ssh_save") =>
          LET i == loc'[c].instance
          IN /\ store' = store
             /\ i.tool_type = "SSH"
             /\ ~i.installed
             /\ i.version = None
             /\ i.install_path = None
    /\ (pc[c] = "ssh_save" /\ pc'[c] = "idle") =>
          LET i == loc[c].instance
          IN IF \E r \in store : r.instance_id = i.instance_id
             THEN /\ ~ret'[c].ok
                  /\ ret'[c].err = "already_exists"
                  /\ store' = store
             ELSE /\ ret'[c].ok
                  /\ ret'[c].instance = i
                  /\ store' = store \cup {i}
                  /\ Cardinality(store') = Cardinality(store) + 1

\* caller c's insert against caller o's call for the same tool and SSH
\* configuration: once c has left the lock the row is there, and when c has
\* succeeded o fails
C28_Against(c, o) ==
    /\ (/\ pc[c] = "ssh_save" /\ pc[o] = "ssh_save" /\ pc'[c] = "idle"
        /\ loc[c].instance.instance_id = loc[o].instance.instance_id) =>
          \E r \in store' : r.instance_id = loc[o].instance.instance_id
    /\ (/\ pc[o] = "ssh_save" /\ pc'[o] = "idle" /\ pc[c] = "idle"
        /\ ret[c].op = "add_ssh_instance" /\ ret[c].ok
        /\ ret[c].instance.instance_id = loc[o].instance.instance_id) =>
          /\ ~ret'[o].ok
          /\ ret'[o].err = "already_exists"
          /\ ret'[c].ok

\* of two finished calls for the same tool and SSH configuration at most one
\* has succeeded, and the store has the one row
C28_NotBoth ==
    (/\ pc[1] = "idle" /\ pc[2] = "idle"
     /\ ret[1].op = "add_ssh_instance" /\ ret[2].op = "add_ssh_instance"
     /\ "instance" \in DOMAIN ret[1] /\ "instance" \in DOMAIN ret[2]
     /\ ret[1].instance.instance_id = ret[2].instance.instance_id) =>
        /\ ~(ret[1].ok /\ ret[2].ok)
        /\ Cardinality({ r \in store :
                            r.instance_id = ret[1].instance.instance_id }) = 1

\* C28: add_ssh_instance builds an SSH instance with installed = false and
\* runs no detection; when a row of that instance_id exists it fails with
\* the conflict error and leaves the store unchanged, otherwise it inserts
\* exactly one row; the check and the insert are one step under the lock, so
\* of two concurrent calls for the same tool and configuration that find no
\* such row the first to take the lock succeeds and the other fails.
C28_AddSshInstance ==
    [][/\ \A c \in Callers : C28_Step(c)
       /\ C28_Against(1, 2) /\ C28_Against(2, 1)
       /\ C28_NotBoth']_vars

\* both callers added codex on hostA, the calls overlapping: caller 2's
\* insert was first, caller 1 got the conflict error
C28_Witness ==
    /\ pc[1] = "idle" /\ pc[2] = "idle"
    /\ ret[1].op = "add_ssh_instance" /\ ret[2].op = "add_ssh_instance"
    /\ ~ret[1].ok /\ ret[1].err = "already_exists"
    /\ ret[2].ok
    /\ ret[1].instance.instance_id = ret[2].instance.instance_id
    /\ ret[1].instance.created_at < ret[2].instance.created_at
    /\ ret[2].instance \in store

\* C29: add_wsl_instance fails at once, with no probe and the store
\* unchanged, when WSL is unavailable or base_id names no tool; a call that
\* goes on probes the distro and then inserts, never upserts, a WSL instance:
\* when a row of the same tool and distro exists the call fails with the
\* store's duplicate error and the store, that row included, stays as it is.
C29_Step(c) ==
    /\ (pc[c] = "idle" /\ nops' # nops /\ pc'[c] = "idle"
            /\ ret'[c].op = "add_wsl_instance") =>
          /\ ~ret'[c].ok
          /\ ret'[c].err \in {"wsl_unavailable", "unknown_tool"}
          /\ store' = store
    /\ (pc[c] = "idle" /\ pc'[c] = "wsl_probe") =>
          /\ Tool_by_id(loc'[c].base_id) # None
          /\ store' = store
    /\ (pc[c] = "wsl_probe" /\ pc'[c] # pc[c]) =>
          /\ store' = store
          /\ pc'[c] = "wsl_save" =>
                /\ loc'[c].instance.tool_type = "WSL"
                /\ loc'[c].instance.base_id = loc[c].base_id
                /\ loc'[c].instance.wsl_distro = Some(loc[c].distro_name)
    /\ (pc[c] = "wsl_save" /\ pc'[c] # pc[c]) =>
          LET i == loc[c].instance
          IN /\ pc'[c] = "idle"
             /\ IF \E r \in store : /\ r.base_id = i.base_id
                                     /\ r.wsl_distro = i.wsl_distro
                                     /\ r.tool_type = "WSL"
                THEN /\ ~ret'[c].ok
                     /\ ret'[c].err = "duplicate_id"
                     /\ store' = store
                ELSE /\ ret'[c].ok
                     /\ ret'[c].instance = i
                     /\ i \notin store
                     /\ store' = store \cup {i}
C29_AddWslInserts == [][C29_Step(1)]_vars

\* a second add of codex in Ubuntu, which found codex installed there, has
\* failed on the row of the first add, which had not found it
C29_Witness ==
    /\ pc[1] = "idle"
    /\ ret[1].op = "add_wsl_instance"
    /\ ~ret[1].ok
    /\ ret[1].err = "duplicate_id"
    /\ ret[1].instance.installed
    /\ \E r \in store : /\ r.instance_id = ret[1].instance.instance_id
                         /\ ~r.installed
                         /\ r # ret[1].instance

\* an add has failed on the missing WSL capability, the store being empty
C29_WitnessUnavailable ==
    /\ pc[1] = "idle"
    /\ ret[1].op = "add_wsl_instance"
    /\ ret[1].err = "wsl_unavailable"
    /\ store = {}
    /\ nops = 1

\* C30: the instance that a single detection builds is Local and builtin,
\* has the id of its tool and the time of the detection, and created_at =
\* updated_at = that time; when is_installed answers false, version,
\* install_path, install_method and installer_path are None whatever the
\* other probes would have answered; installer_path is set exactly when the
\* tool is installed, the method is Npm or Brew and the path lookup
\* succeeded with a non-empty first line, which it then is.
C30_DetectedInstance ==
    ret[1].op = "detect_single_tool_by_detector" =>
        LET i == ret[1].instance
            d == ret[1].d
            w == ret[1].w
            found == /\ d.installed
                     /\ d.method \in {Some("Npm"), Some("Brew")}
                     /\ w.success
                     /\ w.stdout # << >>
                     /\ Head(w.stdout) # ""
        IN /\ i.tool_type = "Local"
           /\ i.is_builtin
           /\ i.base_id = ret[1].tool_id
           /\ i.instance_id = <<ret[1].tool_id, "local", ret[1].t>>
           /\ i.created_at = ret[1].t
           /\ i.updated_at = ret[1].t
           /\ i.wsl_distro = None /\ i.ssh_config = None
           /\ i.installed = d.installed
           /\ ~d.installed =>
                 /\ i.version = None
                 /\ i.install_path = None
                 /\ i.install_method = None
                 /\ i.installer_path = None
           /\ d.installed =>
                 /\ i.version = d.version
                 /\ i.install_path = d.path
                 /\ i.install_method = d.method
           /\ i.installer_path # None <=> found
           /\ found => i.installer_path = Some(Head(w.stdout))

\* a detection at time 1 of a tool installed by npm, the lookup of npm
\* having printed an empty line: the instance has the method and no installer
C30_Witness ==
    /\ ret[1].op = "detect_single_tool_by_detector"
    /\ ret[1].t = 1
    /\ ret[1].d.installed
    /\ ret[1].d.method = Some("Npm")
    /\ ret[1].w = [success |-> TRUE, stdout |-> << "" >>]
    /\ ret[1].instance.install_method = Some("Npm")
    /\ ret[1].instance.installer_path = None

\* a detection of a tool that is not installed although its other probes
\* would have answered
C30_WitnessNotInstalled ==
    /\ ret[1].op = "detect_single_tool_by_detector"
    /\ ~ret[1].d.installed
    /\ ret[1].d.version # None /\ ret[1].d.path # None
    /\ ret[1].d.method = Some("Npm")
    /\ ret[1].w.success /\ ret[1].w.stdout = << NpmPath >>
    /\ ret[1].instance.version = None

\* a detection that found the installer
C30_WitnessInstaller ==
    /\ ret[1].op = "detect_single_tool_by_detector"
    /\ ret[1].d.method = Some("Brew")
    /\ ret[1].instance.installer_path = Some(NpmPath)

\* the rows of store s other than the Local rows of tool t
C31_Others(s, t) == { r \in s : ~(r.base_id = t /\ r.tool_type = "Local") }

\* C31: detect_and_persist_single_tool(t) deletes the Local rows of t in its
\* first step and no step before the save changes the store again: when it
\* returns a path-conflict error the store holds no Local row of t, and the
\* rows of every other tool, the conflicting one among them, are as they
\* were. For a tool id without a detector it fails at once and the store is
\* unchanged.
C31_Step(c) ==
    /\ (pc[c] = "idle" /\ nops' # nops /\ pc'[c] = "dps_detect") =>
          /\ DetectorRegistry_get(loc'[c].tool_id) # None
          /\ store' = C31_Others(store, loc'[c].tool_id)
    /\ (pc[c] = "idle" /\ nops' # nops /\ pc'[c] = "idle"
            /\ ret'[c].op = "detect_and_persist_single_tool") =>
          /\ ~ret'[c].ok
          /\ ret'[c].err = "no_detector"
          /\ store' = store
    /\ (pc[c] = "dps_detect" /\ pc'[c] # pc[c]) =>
          /\ pc'[c] = "dps_check"
          /\ store' = store
    /\ (pc[c] = "dps_check" /\ pc'[c] # pc[c]) =>
          /\ store' = store
          /\ pc'[c] = "idle" =>
                /\ ~ret'[c].ok
                /\ ret'[c].err = "path_conflict"
                /\ store' = C31_Others(store', loc[c].tool_id)
                /\ \E r \in store' : /\ r.tool_type = "Local"
                                      /\ r.base_id # loc[c].tool_id
                                      /\ r.install_path = ret'[c].path
                                      /\ r.tool_name = ret'[c].used_by
C31_PathConflictLeavesNoRow == [][C31_Step(1)]_vars

\* the detection of codex found it at /p2, which the hand-added claude-code
\* claims: the call failed, the stored codex is gone, the other rows stay
C31_Witness ==
    /\ pc[1] = "idle"
    /\ ret[1].op = "detect_and_persist_single_tool"
    /\ ~ret[1].ok
    /\ ret[1].err = "path_conflict"
    /\ SeedLocal.instance_id \in ret[1].removed
    /\ store = {SeedManual, SeedWSL}

\* a detection of a tool without a detector has failed on the filled store
C31_WitnessUnknown ==
    /\ pc[1] = "idle"
    /\ ret[1].op = "detect_and_persist_single_tool"
    /\ ret[1].err = "no_detector"
    /\ store = {SeedLocal, SeedManual}

\* caller c's step under the lock: with a claim on the path it fails and
\* writes nothing, without one it inserts the one row or fails writing nothing
C32_Step(c) ==
    (pc[c] = "ati_save" /\ pc'[c] = "idle") =>
        LET claims == { r \in store : r.tool_type = "Local"
                                        /\ r.install_path = Some(loc[c].path) }
        IN IF claims # {}
           THEN /\ ~ret'[c].ok
                /\ ret'[c].err = "path_conflict"
                /\ store' = store
           ELSE IF ret'[c].ok
           THEN \E r \in store' :
                  /\ r \notin store
                  /\ store' = store \cup {r}
                  /\ r.install_path = Some(loc[c].path)
                  /\ r.base_id = loc[c].tool_id
                  /\ r.tool_type = "Local"
           ELSE store' = store

\* no path has two Local rows, and no two finished calls for one path have
\* both succeeded
C32_OneClaim ==
    /\ \A p \in Paths :
         Cardinality({ r \in store : r.tool_type = "Local"
                                       /\ r.install_path = Some(p) }) <= 1
    /\ ~(/\ pc[1] = "idle" /\ pc[2] = "idle"
         /\ ret[1].op = "add_tool_instance" /\ ret[2].op = "add_tool_instance"
         /\ ret[1].ok /\ ret[2].ok
         /\ ret[1].path = ret[2].path)

\* C32: the path-conflict check and the insert of add_tool_instance are one
\* step under the lock: of two concurrent calls with the same path, for the
\* same or for different tools, at most one succeeds, and the store never
\* holds two Local rows that claim one path.
C32_AtomicPathClaim ==
    [][(\A c \in Callers : C32_Step(c)) /\ C32_OneClaim']_vars

\* two overlapping calls for /p1, one for claude-code and one for the unknown
\* tool, both validated before either took the lock: caller 2 has inserted,
\* caller 1 got the path conflict
C32_Witness ==
    /\ pc[1] = "idle" /\ pc[2] = "idle"
    /\ ret[1].op = "add_tool_instance" /\ ret[2].op = "add_tool_instance"
    /\ ret[2].ok /\ ret[2].path = Some("/p1")
    /\ ~ret[1].ok /\ ret[1].err = "path_conflict" /\ ret[1].path = Some("/p1")
    /\ ret[1].tool_id # ret[2].status.id
    /\ now = 0
    /\ Cardinality(store) = 1

\* caller c's step is a version write-back
C33_WriteStep(c) ==
    pc[c] \in {"upd_write", "chk_write", "rav_write"} /\ pc'[c] # pc[c]

\* the write changes nothing but version and updated_at of the row that the
\* store holds at the moment of the write
C33_Frame(c) ==
    LET id == loc[c].instance.instance_id
    IN /\ { r \in store' : r.instance_id # id } = { r \in store : r.instance_id # id }
       /\ \A r2 \in store' :
            r2.instance_id = id =>
              \E r \in store :
                /\ r.instance_id = id
                /\ [r2 EXCEPT !.version = r.version, !.updated_at = r.updated_at] = r

\* a version that was written to the row after the write-back's snapshot
\* was read is not overwritten
C33_KeepsNewer(c) ==
    \A r \in store :
        (r.instance_id = loc[c].instance.instance_id
            /\ r.version # loc[c].instance.version) => r \in store'

\* a row deleted after the snapshot was read is not created again
C33_NoRecreate(c) ==
    (\A r \in store : r.instance_id # loc[c].instance.instance_id) =>
        store' = store

\* C33: a version write-back (update_instance, check_update_for_instance,
\* refresh_all_tool_versions) changes only version and updated_at of its row
\* as the row is at the moment of the write: it overwrites no other field
\* and no newer version that a concurrent operation wrote since the
\* write-back read its snapshot, and it does not create a deleted row again.
C33_WriteBackTouchesVersionOnly ==
    [][\A c \in Callers :
          C33_WriteStep(c) =>
              C33_Frame(c) /\ C33_KeepsNewer(c) /\ C33_NoRecreate(c)]_vars

\* a clear() that completed after caller c's detection started: the
\* detection in flight holds results of before that clear
C34_ClearedSince(c) ==
    \E d \in Callers \ {c} :
        /\ pc[d] = "idle"
        /\ ret[d].op = "clear"
        /\ ret[d].seq > loc[c].started

\* C34: once clear() has completed, the cache is filled only by a detection
\* that started after the clear, so that every later get_all_status returns
\* statuses of such a detection: a detection that was in flight when the
\* clear completed does not put its results into the cache.
C34_NoStaleRepopulation ==
    [][\A c \in Callers :
          (pc[c] = "gas_insert" /\ pc'[c] # pc[c] /\ C34_ClearedSince(c))
              => cache' = cache]_vars

\* the store st holds what the setter call r set
C37_Reflects(st, r) ==
    IF r.op = "set_tool_instance_selection"
    THEN MapGet(st.tool_instance_selections, r.tool_id) = Some(r.instance_id)
    ELSE st.selected_provider_id = r.provider_id

\* two setter calls that set different things: a selection and the provider,
\* or the selections of two different tools
C37_Independent(a, b) ==
    \/ a.op # b.op
    \/ a.op = "set_tool_instance_selection" /\ a.tool_id # b.tool_id

\* caller c's setter returns Ok as the second of two setter calls, the other
\* caller's having returned Ok
C37_SecondOfTwo(c, d) ==
    /\ pc[c] = "dm_save_cache" /\ pc'[c] = "idle" /\ ret'[c].ok
    /\ nops = 2
    /\ pc[d] = "idle"
    /\ ret[d].op \in {"set_tool_instance_selection", "set_selected_provider_id"}
    /\ ret[d].ok
    /\ C37_Independent(loc[c], ret[d])

\* C37: updates of the dashboard manager are not lost: when a
\* set_tool_instance_selection and a set_selected_provider_id, or two
\* set_tool_instance_selection for different tools, have both returned Ok,
\* however their steps fell, the store in the file and in the cache holds both
\* values; and the cache, when filled and no call is under way, is the
\* content of the file.
C37_NoLostDashboardUpdate ==
    [][/\ \A c \in Callers : \A d \in Callers \ {c} :
            C37_SecondOfTwo(c, d) =>
                /\ IsSome(dashboard'.cache)
                /\ C37_Reflects(Unwrap(dashboard'.cache), loc[c])
                /\ C37_Reflects(Unwrap(dashboard'.cache), ret[d])
       /\ ((\A c \in Callers : pc'[c] = "idle") /\ IsSome(dashboard'.cache)) =>
              dashboard'.file = Some(to_value(Unwrap(dashboard'.cache)))]_vars

\* caller c's refresh has returned, and the store holds the versions it
\* returned (its write-backs, where it had any, went through)
C36_FirstRun(c) ==
    /\ pc[c] = "idle"
    /\ ret[c].op = "refresh_all_tool_versions"
    /\ \A r \in store :
          \E i \in DOMAIN ret[c].statuses :
              /\ ret[c].statuses[i].id = r.base_id
              /\ ret[c].statuses[i].version = r.version

\* what the version command printed in caller c's run over the row of
\* SeedOld: the one result that gives the version the run returned (the
\* row's version 0 is no output's version, so a kept 0 is a failed command)
C36_Output(c) ==
    CHOOSE r \in VersionCmdResults :
        NewVersion(SeedOld, Some(r)) = ret[c].statuses[1].version

\* caller d's run is the next operation after caller c's: it read the store
\* as that run left it, and takes the turn of its loop
C36_SecondRun(c, d) ==
    /\ C36_FirstRun(c)
    /\ pc[d] = "rav_probe" /\ pc'[d] # pc[d]
    /\ loc[d].todo = { r \in store : r.tool_type = "Local" }
    /\ loc[d].statuses = << >>

\* C36: refresh_all_tool_versions is idempotent while the version commands
\* print the same: a run that follows a run whose write-backs went through,
\* with nothing between them, goes to a write-back only when its command's
\* result differs from the first run's; with the same result it writes
\* nothing and returns the status list the first run returned.
C36_RefreshIdempotent ==
    [][\A c \in Callers : \A d \in Callers \ {c} :
          C36_SecondRun(c, d) =>
              /\ store' = store
              /\ pc'[d] \in {"rav_write", "idle"}
              /\ pc'[d] = "rav_write" =>
                     loc'[d].version_cmd # Some(C36_Output(c))
              /\ pc'[d] = "idle" => ret'[d].statuses = ret[c].statuses]_vars

\* both runs have returned version 2, which the first wrote and the second
\* found in the store
C36_Witness ==
    /\ nops = 2
    /\ C36_FirstRun(1)
    /\ pc[2] = "idle"
    /\ ret[2].op = "refresh_all_tool_versions"
    /\ ret[2].statuses = ret[1].statuses
    /\ Len(ret[1].statuses) = 1
    /\ ret[1].statuses[1].version = Some(<<"2">>)

\* caller c waits for the store lock
C35_Waiting(c) == pc[c] = "lk_run" /\ NextEvent(c) = "lock"

\* caller c's operation returns, by whatever exit, without the lock: its
\* last event is the release, or it did not hold the lock
C35_ReleasedAtExit(c) ==
    (pc[c] = "lk_run" /\ pc'[c] = "idle") =>
        /\ NextEvent(c) # "lock"
        /\ loc[c].held => NextEvent(c) = "unlock"
        /\ c \notin Holders'

\* the step a waiting caller takes is the acquisition of the lock
C35_WaitEndsInLock(c) ==
    (C35_Waiting(c) /\ loc'[c] # loc[c]) => c \in Holders'

\* C35: every registry operation releases the store lock on every exit path,
\* early error returns included; and when every probe ends, every operation
\* returns, so that a caller that waits for the lock gets it (the only step
\* of a waiting caller is the acquisition, and it does return).
C35_LockReleasedAndLive ==
    /\ [][\A c \in Callers : C35_ReleasedAtExit(c) /\ C35_WaitEndsInLock(c)]_vars
    /\ \A c \in Callers : (pc[c] = "lk_run") ~> (pc[c] = "idle")

\* caller 1 waits for the lock of add_tool_instance while caller 2 holds it
\* in add_ssh_instance
C35_Witness ==
    /\ C35_Waiting(1)
    /\ loc[1].op = "add_tool_instance"
    /\ pc[2] = "lk_run"
    /\ loc[2].op = "add_ssh_instance"
    /\ Holders = {2}

\* both have returned, add_tool_instance after its lock scope and
\* add_ssh_instance after its own
C35_WitnessReturned ==
    /\ pc[1] = "idle" /\ pc[2] = "idle"
    /\ ret[1].op = "add_tool_instance" /\ ret[1].last = "unlock"
    /\ ret[2].op = "add_ssh_instance" /\ ret[2].last = "unlock"
    /\ Holders = {}

====
